---- MODULE Spec2Model ----
(***************************************************************************)
(* Model of the WebDAV protocol jobs of src/libsync/networkjobs.cpp:       *)
(*   - LsColXMLParser::parse, the streaming multistatus parser, one step   *)
(*     per run of its while loop over the tokens of one document element;  *)
(*   - CheckServerJob, the server discovery job with its fallback retry.   *)
(* Strings are sequences of one-character strings, so that startsWith,     *)
(* endsWith, chop, contains, remove and percent-decoding are computed.     *)
(***************************************************************************)
EXTENDS Integers, Sequences, FiniteSets, TLC

VARIABLES
    parser,      \* locals of LsColXMLParser::parse; emitted: the signals of the last step
    received,    \* the names of all signals parse emitted so far, in order
    parsePc,     \* "parsing" | "returned"
    parseResult, \* return value of parse once parsePc = "returned"
    open,        \* the reader: stack of the elements open at the read position
    rootClosed,  \* the reader: the root element was closed
    docPs,       \* the document: the propstat block being read
    docCur,      \* the document: the response being read
    docPrev,     \* the document: the response whose end was read in the last step
    docCount,    \* the document: number of responses read completely
    docSimple,   \* the document: every response so far had one propstat, with status 200
    docBadHref,  \* the document: the last step read a href outside the expected path
    docRoot,     \* the document: name of the root element, <<>> before it is read
    docEnd,      \* the document: "none" | "complete" | "syntaxerror"
    account,     \* the account: its url and the TLS session info it caches
    job,         \* CheckServerJob: its fields, its reply and its timer
    signals,     \* CheckServerJob: the signals emitted to the caller, in order
    attempts     \* CheckServerJob: the requests sent and how each one ended

parseVars == <<parser, received, parsePc, parseResult, open, rootClosed,
               docPs, docCur, docPrev, docCount, docSimple, docBadHref,
               docRoot, docEnd>>
checkVars == <<account, job, signals, attempts>>
vars == <<parser, received, parsePc, parseResult, open, rootClosed,
          docPs, docCur, docPrev, docCount, docSimple, docBadHref,
          docRoot, docEnd, account, job, signals, attempts>>

(***************************************************************************)
(* Bounds of the model                                                     *)
(***************************************************************************)
MaxResponses == 2
MaxPropstats == 2

(***************************************************************************)
(* QString / QByteArray operations                                         *)
(***************************************************************************)
startsWith(s, p) == Len(p) <= Len(s) /\ SubSeq(s, 1, Len(p)) = p

endsWith(s, p) == Len(p) <= Len(s) /\ SubSeq(s, Len(s) - Len(p) + 1, Len(s)) = p

chop(s, n) == IF n >= Len(s) THEN <<>> ELSE SubSeq(s, 1, Len(s) - n)

contains(s, p) == \E i \in 1..(Len(s) - Len(p) + 1) : SubSeq(s, i, i + Len(p) - 1) = p

RECURSIVE remove(_, _)
remove(s, p) ==
    IF s = <<>> \/ p = <<>> THEN s
    ELSE IF startsWith(s, p) THEN remove(SubSeq(s, Len(p) + 1, Len(s)), p)
    ELSE <<Head(s)>> \o remove(Tail(s), p)

HexDigits == {"0", "1", "2", "3", "4", "5", "6", "7", "8", "9",
              "a", "b", "c", "d", "e", "f", "A", "B", "C", "D", "E", "F"}

HexValue(c) ==
    CASE c = "0" -> 0 [] c = "1" -> 1 [] c = "2" -> 2 [] c = "3" -> 3 [] c = "4" -> 4
      [] c = "5" -> 5 [] c = "6" -> 6 [] c = "7" -> 7 [] c = "8" -> 8 [] c = "9" -> 9
      [] c \in {"a", "A"} -> 10 [] c \in {"b", "B"} -> 11 [] c \in {"c", "C"} -> 12
      [] c \in {"d", "D"} -> 13 [] c \in {"e", "E"} -> 14 [] c \in {"f", "F"} -> 15

\* The bytes the documents of the model can encode; any other byte reads "?".
ByteChar(n) ==
    CASE n = 37 -> "%" [] n = 47 -> "/" [] n = 97 -> "a" [] n = 98 -> "b"
      [] n = 99 -> "c" [] n = 120 -> "x" [] OTHER -> "?"

RECURSIVE fromPercentEncoding(_)
fromPercentEncoding(s) ==
    IF s = <<>> THEN <<>>
    ELSE IF s[1] = "%" /\ Len(s) >= 3 /\ s[2] \in HexDigits /\ s[3] \in HexDigits
         THEN <<ByteChar(16 * HexValue(s[2]) + HexValue(s[3]))>>
                  \o fromPercentEncoding(SubSeq(s, 4, Len(s)))
         ELSE <<Head(s)>> \o fromPercentEncoding(Tail(s))

Digits == {"0", "1", "2", "3", "4", "5", "6", "7", "8", "9"}

RECURSIVE DecimalValue(_)
DecimalValue(s) ==
    IF s = <<>> THEN 0 ELSE 10 * DecimalValue(SubSeq(s, 1, Len(s) - 1)) + HexValue(s[Len(s)])

\* QString::toLongLong(&ok): an optional sign and decimal digits.
toLongLong(s) ==
    LET neg == s # <<>> /\ s[1] = "-"
        body == IF s # <<>> /\ s[1] \in {"-", "+"} THEN Tail(s) ELSE s
        ok == body # <<>> /\ \A i \in 1..Len(body) : body[i] \in Digits
    IN  [ok |-> ok, value |-> IF ~ok THEN 0 ELSE IF neg THEN 0 - DecimalValue(body)
                                                    ELSE DecimalValue(body)]

\* QMap / QHash
EmptyMap == <<>>

insert(m, k, v) == [x \in (DOMAIN m) \cup {k} |-> IF x = k THEN v ELSE m[x]]

Pairs(m) == {<<k, m[k]>> : k \in DOMAIN m}

(***************************************************************************)
(* String literals of the source and of the documents                      *)
(***************************************************************************)
DAV == <<"D", "A", "V", ":">>
OCNS == <<"o", "c", ":">>
S_href == <<"h", "r", "e", "f">>
S_response == <<"r", "e", "s", "p", "o", "n", "s", "e">>
S_propstat == <<"p", "r", "o", "p", "s", "t", "a", "t">>
S_status == <<"s", "t", "a", "t", "u", "s">>
S_prop == <<"p", "r", "o", "p">>
S_multistatus == <<"m", "u", "l", "t", "i", "s", "t", "a", "t", "u", "s">>
S_resourcetype == <<"r", "e", "s", "o", "u", "r", "c", "e", "t", "y", "p", "e">>
S_collection == <<"c", "o", "l", "l", "e", "c", "t", "i", "o", "n">>
S_size == <<"s", "i", "z", "e">>
S_getetag == <<"g", "e", "t", "e", "t", "a", "g">>
S_error == <<"e", "r", "r", "o", "r">>
S_HTTP200 == <<"H", "T", "T", "P", "/", "1", ".", "1", " ", "2", "0", "0">>

(***************************************************************************)
(* QXmlStreamReader: tokens and the two reading helpers                    *)
(***************************************************************************)
Tok(type, ns, name, text) == [type |-> type, ns |-> ns, name |-> name, text |-> text]

StartTok(ns, name) == Tok("StartElement", ns, name, <<>>)

EndTok(ns, name) == Tok("EndElement", ns, name, <<>>)

CharsTok(text) == Tok("Characters", <<>>, <<>>, text)

InvalidTok == Tok("Invalid", <<>>, <<>>, <<>>)

EndDocumentTok == Tok("EndDocument", <<>>, <<>>, <<>>)

\* QXmlStreamReader::readElementText(): the text up to the end of the current
\* element; a child element is an error (ErrorOnUnexpectedElement).
RECURSIVE readElementText(_)
readElementText(toks) ==
    IF toks = <<>> THEN [text |-> <<>>, rest |-> <<>>, error |-> TRUE]
    ELSE LET t == Head(toks) IN
         IF t.type = "Characters"
         THEN LET r == readElementText(Tail(toks))
              IN  [text |-> t.text \o r.text, rest |-> r.rest, error |-> r.error]
         ELSE IF t.type = "EndElement"
         THEN [text |-> <<>>, rest |-> Tail(toks), error |-> FALSE]
         ELSE [text |-> <<>>, rest |-> Tail(toks), error |-> TRUE]

\* readContentsAsString: the do-while loop from `level` on; `last` is
\* reader.name() when the loop is left.
RECURSIVE readContentsLoop(_, _, _)
readContentsLoop(toks, level, last) ==
    IF toks = <<>> THEN [result |-> <<>>, rest |-> <<>>, last |-> last, error |-> TRUE]
    ELSE LET t == Head(toks) IN
         IF t.type = "StartElement"
         THEN LET r == readContentsLoop(Tail(toks), level + 1, t.name)
              IN  [r EXCEPT !.result = <<"<">> \o t.name \o <<">">> \o r.result]
         ELSE IF t.type = "Characters"
         THEN LET r == readContentsLoop(Tail(toks), level, t.name)
              IN  [r EXCEPT !.result = t.text \o r.result]
         ELSE IF t.type = "EndElement"
         THEN IF level - 1 < 0
              THEN [result |-> <<>>, rest |-> Tail(toks), last |-> t.name, error |-> FALSE]
              ELSE LET r == readContentsLoop(Tail(toks), level - 1, t.name)
                   IN  [r EXCEPT !.result = <<"<", "/">> \o t.name \o <<">">> \o r.result]
         ELSE [result |-> <<>>, rest |-> Tail(toks), last |-> t.name, error |-> TRUE]

readContentsAsString(toks, name) == readContentsLoop(toks, 0, name)

(***************************************************************************)
(* LsColXMLParser::parse                                                   *)
(***************************************************************************)
\* The request path the hrefs are validated against.
ExpectedPath == <<"/", "a">>

Iterated(href, props) ==
    [sig |-> "directoryListingIterated", href |-> href, props |-> props, folders |-> <<>>]

Subfolders(folders) ==
    [sig |-> "directoryListingSubfolders", href |-> <<>>, props |-> EmptyMap, folders |-> folders]

FinishedWithoutError ==
    [sig |-> "finishedWithoutError", href |-> <<>>, props |-> EmptyMap, folders |-> <<>>]

\* The locals of parse as declared before the loop.
ParserLocals ==
    [folders |-> <<>>,
     currentHref |-> <<>>,
     currentTmpProperties |-> EmptyMap,
     currentHttp200Properties |-> EmptyMap,
     currentPropsHaveHttp200 |-> FALSE,
     insidePropstat |-> FALSE,
     insideProp |-> FALSE,
     insideMultiStatus |-> FALSE,
     sizes |-> EmptyMap,
     hasError |-> FALSE,
     emitted |-> <<>>]

\* The href read: stored if it starts with the expected path, else parse returns.
HrefChecked(l, hrefString, rest) ==
    IF ~startsWith(hrefString, ExpectedPath)
    THEN [l |-> l, rest |-> rest, ctl |-> "return"]
    ELSE [l |-> [l EXCEPT !.currentHref = hrefString], rest |-> rest, ctl |-> "fall"]

HrefRead(l, r) ==
    HrefChecked([l EXCEPT !.hasError = @ \/ r.error], fromPercentEncoding(r.text), r.rest)

\* Mutant of HrefElement: the href is stored without being validated.
HrefElement_Unchecked(l, rest) ==
    [l |-> [l EXCEPT !.currentHref = fromPercentEncoding(readElementText(rest).text)],
     rest |-> readElementText(rest).rest, ctl |-> "fall"]

\* name == "href": decode, validate against the expected path, store.
HrefElement(l, rest) == HrefRead(l, readElementText(rest))

StatusRead(l, r) ==
    [l |-> [l EXCEPT !.currentPropsHaveHttp200 = startsWith(r.text, S_HTTP200),
                     !.hasError = @ \/ r.error],
     rest |-> r.rest, ctl |-> "fall"]

\* name == "status" inside a propstat: the flag follows the status text.
StatusElement(l, rest) == StatusRead(l, readElementText(rest))

\* "Start elements with DAV:"
DavStartElement(l, t, rest) ==
    IF t.type = "StartElement" /\ t.ns = DAV
    THEN IF t.name = S_href THEN HrefElement(l, rest)
         ELSE IF t.name = S_response THEN [l |-> l, rest |-> rest, ctl |-> "fall"]
         ELSE IF t.name = S_propstat
              THEN [l |-> [l EXCEPT !.insidePropstat = TRUE], rest |-> rest, ctl |-> "fall"]
         ELSE IF t.name = S_status /\ l.insidePropstat THEN StatusElement(l, rest)
         ELSE IF t.name = S_prop
              THEN [l |-> [l EXCEPT !.insideProp = TRUE], rest |-> rest, ctl |-> "continue"]
         ELSE IF t.name = S_multistatus
              THEN [l |-> [l EXCEPT !.insideMultiStatus = TRUE], rest |-> rest, ctl |-> "continue"]
         ELSE [l |-> l, rest |-> rest, ctl |-> "fall"]
    ELSE [l |-> l, rest |-> rest, ctl |-> "fall"]

\* Mutant of FolderOrSize: a size is recorded whether its text is a number or not.
FolderOrSize_AnySize(l, name, propertyContent, s) ==
    IF name = S_resourcetype /\ contains(propertyContent, S_collection)
    THEN [l EXCEPT !.folders = Append(@, l.currentHref)]
    ELSE IF name = S_size
    THEN [l EXCEPT !.sizes = insert(@, l.currentHref, s.value)]
    ELSE l

\* A collection resourcetype adds the href to the folders, a numeric size
\* records the size of the href.
FolderOrSize(l, name, propertyContent, s) ==
    IF name = S_resourcetype /\ contains(propertyContent, S_collection)
    THEN [l EXCEPT !.folders = Append(@, l.currentHref)]
    ELSE IF name = S_size /\ s.ok
    THEN [l EXCEPT !.sizes = insert(@, l.currentHref, s.value)]
    ELSE l

PropertyRead(l, name, r) ==
    [l |-> [FolderOrSize(l, name, r.result, toLongLong(r.result)) EXCEPT
               !.currentTmpProperties = insert(@, r.last, r.result),
               !.hasError = @ \/ r.error],
     rest |-> r.rest]

\* "All those elements are properties"
PropertyElement(l, t, rest) ==
    IF t.type = "StartElement" /\ l.insidePropstat /\ l.insideProp
    THEN PropertyRead(l, t.name, readContentsAsString(rest, t.name))
    ELSE [l |-> l, rest |-> rest]

\* The href as emitted: one trailing slash stripped.
Chopped(href) == IF endsWith(href, <<"/">>) THEN chop(href, 1) ELSE href

\* Mutant of ResponseEnd: the published mapping is cleared before it is emitted.
ResponseEnd_ClearFirst(l) ==
    [l EXCEPT !.emitted = Append(@, Iterated(Chopped(l.currentHref), EmptyMap)),
              !.currentHref = <<>>,
              !.currentHttp200Properties = EmptyMap]

\* Mutant of ResponseEnd: the published mapping is not cleared after the emission.
ResponseEnd_KeepProps(l) ==
    [l EXCEPT !.emitted = Append(@, Iterated(Chopped(l.currentHref), l.currentHttp200Properties)),
              !.currentHref = <<>>]

\* Mutant of ResponseEnd: the href is not cleared after the emission.
ResponseEnd_KeepHref(l) ==
    [l EXCEPT !.emitted = Append(@, Iterated(Chopped(l.currentHref), l.currentHttp200Properties)),
              !.currentHttp200Properties = EmptyMap]

\* End of a response: strip one trailing slash, emit the entry, clear.
ResponseEnd(l) ==
    [l EXCEPT !.emitted = Append(@, Iterated(Chopped(l.currentHref), l.currentHttp200Properties)),
              !.currentHref = <<>>,
              !.currentHttp200Properties = EmptyMap]

\* Mutant of PropstatEnd: the working mapping is published whatever the status.
PropstatEnd_Ungated(l) ==
    [l EXCEPT !.insidePropstat = FALSE,
              !.currentHttp200Properties = l.currentTmpProperties,
              !.currentTmpProperties = EmptyMap,
              !.currentPropsHaveHttp200 = FALSE]

\* Mutant of PropstatEnd: a 200 block is merged into the published mapping.
PropstatEnd_Merge(l) ==
    [l EXCEPT !.insidePropstat = FALSE,
              !.currentHttp200Properties =
                  IF l.currentPropsHaveHttp200
                  THEN [k \in (DOMAIN @) \cup (DOMAIN l.currentTmpProperties) |->
                           IF k \in DOMAIN l.currentTmpProperties
                           THEN l.currentTmpProperties[k] ELSE @[k]]
                  ELSE @,
              !.currentTmpProperties = EmptyMap,
              !.currentPropsHaveHttp200 = FALSE]

\* End of a propstat: publish the working mapping if its status was 200.
PropstatEnd(l) ==
    [l EXCEPT !.insidePropstat = FALSE,
              !.currentHttp200Properties =
                  IF l.currentPropsHaveHttp200 THEN l.currentTmpProperties ELSE @,
              !.currentTmpProperties = EmptyMap,
              !.currentPropsHaveHttp200 = FALSE]

\* "End elements with DAV:"
DavEndElement(l, t) ==
    IF t.type = "EndElement" /\ t.ns = DAV
    THEN IF t.name = S_response THEN ResponseEnd(l)
         ELSE IF t.name = S_propstat THEN PropstatEnd(l)
         ELSE IF t.name = S_prop THEN [l EXCEPT !.insideProp = FALSE]
         ELSE l
    ELSE l

AfterProperty(t, b2) == [l |-> DavEndElement(b2.l, t), rest |-> b2.rest, ret |-> FALSE]

\* After the first block: return false, continue, or the two other blocks.
AfterDavStart(t, b1) ==
    IF b1.ctl = "return" THEN [l |-> b1.l, rest |-> b1.rest, ret |-> TRUE]
    ELSE IF b1.ctl = "continue" THEN [l |-> b1.l, rest |-> b1.rest, ret |-> FALSE]
    ELSE AfterProperty(t, PropertyElement(b1.l, t, b1.rest))

\* One run of the body of the while loop, on the token readNext() returns.
LoopBody(l, toks) ==
    AfterDavStart(Head(toks),
                  DavStartElement([l EXCEPT !.hasError = @ \/ Head(toks).type = "Invalid"],
                                  Head(toks), Tail(toks)))

\* while (!reader.atEnd()) over the tokens at hand.
RECURSIVE RunLoop(_, _)
RunLoopStep(i) == IF i.ret THEN [l |-> i.l, ret |-> TRUE] ELSE RunLoop(i.l, i.rest)

RunLoop(l, toks) ==
    IF toks = <<>> \/ l.hasError THEN [l |-> l, ret |-> FALSE]
    ELSE RunLoopStep(LoopBody(l, toks))

\* Mutant of AfterLoop: the multistatus element is not required.
AfterLoop_NoRootCheck(l) ==
    IF l.hasError THEN [l |-> l, result |-> "false"]
    ELSE [l |-> [l EXCEPT !.emitted = @ \o <<Subfolders(l.folders), FinishedWithoutError>>],
          result |-> "true"]

\* After the loop: error, no multistatus, or the two final signals.
AfterLoop(l) ==
    IF l.hasError THEN [l |-> l, result |-> "false"]
    ELSE IF ~l.insideMultiStatus THEN [l |-> l, result |-> "false"]
    ELSE [l |-> [l EXCEPT !.emitted = @ \o <<Subfolders(l.folders), FinishedWithoutError>>],
          result |-> "true"]

\* parser.emitted holds what this step emits, received the names of all signals.
ParseState(l, pc, result) ==
    /\ parser' = l
    /\ parsePc' = pc
    /\ parseResult' = result
    /\ received' = received \o [i \in 1..Len(l.emitted) |-> l.emitted[i].sig]

ParseReturn(f) == ParseState(f.l, "returned", f.result)

ParseResume(r, atEnd) ==
    IF r.ret THEN ParseState(r.l, "returned", "false")
    ELSE IF atEnd \/ r.l.hasError THEN ParseReturn(AfterLoop(r.l))
    ELSE ParseState(r.l, parsePc, parseResult)

\* parse() reads the tokens `toks`; `atEnd`: the document ends with them.
Parse(toks, atEnd) == ParseResume(RunLoop([parser EXCEPT !.emitted = <<>>], toks), atEnd)

(***************************************************************************)
(* The documents read: elements nested as RFC 4918 nests them              *)
(* (root > response > href | propstat > prop | status): the href, if any,  *)
(* comes first in its response, a propstat has at most one prop and one    *)
(* status in any order, and a property is reported once per response.  The *)
(* root may not be a multistatus, and a syntax error may come at any       *)
(* point.  Each choice carries the value the element stands for, so that   *)
(* what parse publishes can be compared with the document.                 *)
(***************************************************************************)
HrefChoices ==
    { [raw |-> <<"/", "%", "6", "1", "/", "b", "/">>, decoded |-> <<"/", "a", "/", "b", "/">>,
       entry |-> <<"/", "a", "/", "b">>, valid |-> TRUE],
      [raw |-> <<"/", "a", "/">>, decoded |-> <<"/", "a", "/">>,
       entry |-> <<"/", "a">>, valid |-> TRUE],
      [raw |-> <<"/", "x", "/", "b">>, decoded |-> <<"/", "x", "/", "b">>,
       entry |-> <<"/", "x", "/", "b">>, valid |-> FALSE] }

StatusChoices ==
    { [text |-> <<"H", "T", "T", "P", "/", "1", ".", "1", " ", "2", "0", "0", " ", "O", "K">>,
       ok |-> TRUE],
      [text |-> <<"H", "T", "T", "P", "/", "1", ".", "1", " ", "4", "0", "4", " ", "N", "o",
                  "t", " ", "F", "o", "u", "n", "d">>,
       ok |-> FALSE] }

\* is: what the property tells of the resource (a collection, a size that is a
\* number, a size that is none, or nothing the parser looks at).
PropChoices ==
    { [ns |-> DAV, name |-> S_getetag, body |-> <<CharsTok(<<"e", "1">>)>>,
       flat |-> <<"e", "1">>, is |-> "other"],
      [ns |-> DAV, name |-> S_resourcetype,
       body |-> <<StartTok(DAV, S_collection), EndTok(DAV, S_collection)>>,
       flat |-> <<"<", "c", "o", "l", "l", "e", "c", "t", "i", "o", "n", ">",
                  "<", "/", "c", "o", "l", "l", "e", "c", "t", "i", "o", "n", ">">>,
       is |-> "collection"],
      [ns |-> OCNS, name |-> S_size, body |-> <<CharsTok(<<"1", "2">>)>>,
       flat |-> <<"1", "2">>, is |-> "size"],
      [ns |-> OCNS, name |-> S_size, body |-> <<CharsTok(<<"1", "x">>)>>,
       flat |-> <<"1", "x">>, is |-> "nosize"] }

RootChoices == {S_multistatus, S_error}

\* is: what the properties of the propstat tell of the resource.
NoPropstat == [props |-> {}, status |-> "none", hasProp |-> FALSE, is |-> {}]

\* n, n200: propstats read, and those with status 200; last200: the properties
\* of the last of these; all200: of all of these; names: properties reported;
\* follows200: the response before this one had properties with status 200;
\* decoded: the href as written, percent-decoded.  Of the document so far:
\* entries: the hrefs of the responses ended, as they are to be emitted;
\* folderTold, sizeTold: the decoded hrefs that a propstat told to be a
\* collection, to have a numeric size, the propstats with a status other than
\* 200 left out; numericRead: those for which a numeric size was read at all;
\* noSize: a size that is no number was read.
NoResponse ==
    [ended |-> FALSE, hasHref |-> FALSE, href |-> <<>>, n |-> 0, n200 |-> 0,
     last200 |-> {}, all200 |-> {}, names |-> {}, follows200 |-> FALSE,
     decoded |-> <<>>, entries |-> {}, folderTold |-> {}, sizeTold |-> {},
     numericRead |-> {}, noSize |-> FALSE]

\* The next response: what is known of the document is kept.
NextResponse(cur, follows) ==
    [NoResponse EXCEPT !.follows200 = follows,
                       !.entries = cur.entries,
                       !.folderTold = cur.folderTold,
                       !.sizeTold = cur.sizeTold,
                       !.numericRead = cur.numericRead,
                       !.noSize = cur.noSize]

Top == IF open = <<>> THEN <<>> ELSE open[Len(open)]

Pop == SubSeq(open, 1, Len(open) - 1)

Reading == parsePc = "parsing"

\* What a step that ends no response and reads no href leaves of the document.
DocStep == docPrev' = NoResponse /\ docBadHref' = FALSE

ReadStartRoot ==
    /\ Reading /\ open = <<>> /\ ~rootClosed
    /\ \E name \in RootChoices :
          /\ Parse(<<StartTok(DAV, name)>>, FALSE)
          /\ open' = <<name>>
          /\ docRoot' = name
    /\ DocStep
    /\ UNCHANGED <<rootClosed, docPs, docCur, docCount, docSimple, docEnd, checkVars>>

ReadEndRoot ==
    /\ Reading /\ Len(open) = 1
    /\ Parse(<<EndTok(DAV, Top)>>, FALSE)
    /\ open' = <<>> /\ rootClosed' = TRUE
    /\ DocStep
    /\ UNCHANGED <<docPs, docCur, docCount, docSimple, docRoot, docEnd, checkVars>>

ReadEndDocument ==
    /\ Reading /\ open = <<>> /\ rootClosed
    /\ Parse(<<EndDocumentTok>>, TRUE)
    /\ docEnd' = "complete"
    /\ DocStep
    /\ UNCHANGED <<open, rootClosed, docPs, docCur, docCount, docSimple, docRoot, checkVars>>

\* A syntax error, or the premature end of the document.
ReadSyntaxError ==
    /\ Reading /\ ~rootClosed
    /\ Parse(<<InvalidTok>>, TRUE)
    /\ docEnd' = "syntaxerror"
    /\ DocStep
    /\ UNCHANGED <<open, rootClosed, docPs, docCur, docCount, docSimple, docRoot, checkVars>>

\* White space between two elements.
ReadWhitespace ==
    /\ Reading /\ open # <<>>
    /\ Parse(<<CharsTok(<<" ">>)>>, FALSE)
    /\ DocStep
    /\ UNCHANGED <<open, rootClosed, docPs, docCur, docCount, docSimple, docRoot, docEnd, checkVars>>

ReadStartResponse ==
    /\ Reading /\ Len(open) = 1 /\ docCount < MaxResponses
    /\ Parse(<<StartTok(DAV, S_response)>>, FALSE)
    /\ open' = Append(open, S_response)
    /\ docCur' = NextResponse(docCur, docCur.follows200)
    /\ DocStep
    /\ UNCHANGED <<rootClosed, docPs, docCount, docSimple, docRoot, docEnd, checkVars>>

ReadHref ==
    /\ Reading /\ Top = S_response /\ ~docCur.hasHref /\ docCur.n = 0
    /\ \E h \in HrefChoices :
          /\ Parse(<<StartTok(DAV, S_href), CharsTok(h.raw), EndTok(DAV, S_href)>>, FALSE)
          /\ docCur' = [docCur EXCEPT !.hasHref = TRUE, !.href = h.entry,
                                       !.decoded = h.decoded]
          /\ docBadHref' = ~h.valid
    /\ docPrev' = NoResponse
    /\ UNCHANGED <<open, rootClosed, docPs, docCount, docSimple, docRoot, docEnd, checkVars>>

ReadStartPropstat ==
    /\ Reading /\ Top = S_response /\ docCur.n < MaxPropstats
    /\ Parse(<<StartTok(DAV, S_propstat)>>, FALSE)
    /\ open' = Append(open, S_propstat)
    /\ docPs' = NoPropstat
    /\ DocStep
    /\ UNCHANGED <<rootClosed, docCur, docCount, docSimple, docRoot, docEnd, checkVars>>

ReadStatus ==
    /\ Reading /\ Top = S_propstat /\ docPs.status = "none"
    /\ \E st \in StatusChoices :
          /\ Parse(<<StartTok(DAV, S_status), CharsTok(st.text), EndTok(DAV, S_status)>>, FALSE)
          /\ docPs' = [docPs EXCEPT !.status = IF st.ok THEN "ok" ELSE "other"]
    /\ DocStep
    /\ UNCHANGED <<open, rootClosed, docCur, docCount, docSimple, docRoot, docEnd, checkVars>>

ReadStartProp ==
    /\ Reading /\ Top = S_propstat /\ ~docPs.hasProp
    /\ Parse(<<StartTok(DAV, S_prop)>>, FALSE)
    /\ open' = Append(open, S_prop)
    /\ docPs' = [docPs EXCEPT !.hasProp = TRUE]
    /\ DocStep
    /\ UNCHANGED <<rootClosed, docCur, docCount, docSimple, docRoot, docEnd, checkVars>>

\* A property element with its content.
ReadProperty ==
    /\ Reading /\ Top = S_prop
    /\ \E c \in PropChoices :
          /\ c.name \notin docCur.names
          /\ Parse(<<StartTok(c.ns, c.name)>> \o c.body \o <<EndTok(c.ns, c.name)>>, FALSE)
          /\ docPs' = [docPs EXCEPT !.props = @ \cup {<<c.name, c.flat>>},
                                     !.is = @ \cup {c.is}]
          /\ docCur' = [docCur EXCEPT
                           !.names = @ \cup {c.name},
                           !.numericRead = IF c.is = "size" THEN @ \cup {docCur.decoded} ELSE @,
                           !.noSize = @ \/ c.is = "nosize"]
    /\ DocStep
    /\ UNCHANGED <<open, rootClosed, docCount, docSimple, docRoot, docEnd, checkVars>>

ReadEndProp ==
    /\ Reading /\ Top = S_prop
    /\ Parse(<<EndTok(DAV, S_prop)>>, FALSE)
    /\ open' = Pop
    /\ DocStep
    /\ UNCHANGED <<rootClosed, docPs, docCur, docCount, docSimple, docRoot, docEnd, checkVars>>

ReadEndPropstat ==
    /\ Reading /\ Top = S_propstat
    /\ Parse(<<EndTok(DAV, S_propstat)>>, FALSE)
    /\ open' = Pop
    /\ docCur' = [docCur EXCEPT
                     !.n = @ + 1,
                     !.n200 = IF docPs.status = "ok" THEN @ + 1 ELSE @,
                     !.last200 = IF docPs.status = "ok" THEN docPs.props ELSE @,
                     !.all200 = IF docPs.status = "ok" THEN @ \cup docPs.props ELSE @,
                     !.folderTold = IF docPs.status # "other" /\ "collection" \in docPs.is
                                    THEN @ \cup {docCur.decoded} ELSE @,
                     !.sizeTold = IF docPs.status # "other" /\ "size" \in docPs.is
                                  THEN @ \cup {docCur.decoded} ELSE @]
    /\ docPs' = NoPropstat
    /\ DocStep
    /\ UNCHANGED <<rootClosed, docCount, docSimple, docRoot, docEnd, checkVars>>

ReadEndResponse ==
    /\ Reading /\ Top = S_response
    /\ Parse(<<EndTok(DAV, S_response)>>, FALSE)
    /\ open' = Pop
    /\ docPrev' = [docCur EXCEPT !.ended = TRUE, !.entries = @ \cup {docCur.href}]
    /\ docCount' = docCount + 1
    /\ docSimple' = (docSimple /\ docCur.n = 1 /\ docCur.n200 = 1 /\ docCur.hasHref)
    /\ docCur' = NextResponse([docCur EXCEPT !.entries = @ \cup {docCur.href}],
                               docCur.last200 # {})
    /\ docBadHref' = FALSE
    /\ UNCHANGED <<rootClosed, docPs, docRoot, docEnd, checkVars>>

JobIdle == [state |-> "idle"]

AccountIdle == [state |-> "idle", credentials |-> "valid"]

ParseInit ==
    /\ parser = ParserLocals
    /\ received = <<>>
    /\ parsePc = "parsing"
    /\ parseResult = "none"
    /\ open = <<>>
    /\ rootClosed = FALSE
    /\ docPs = NoPropstat
    /\ docCur = NoResponse
    /\ docPrev = NoResponse
    /\ docCount = 0
    /\ docSimple = TRUE
    /\ docBadHref = FALSE
    /\ docRoot = <<>>
    /\ docEnd = "none"
    /\ account = AccountIdle
    /\ job = JobIdle
    /\ signals = <<>>
    /\ attempts = <<>>

ParseNext ==
    \/ ReadStartRoot
    \/ ReadEndRoot
    \/ ReadEndDocument
    \/ ReadSyntaxError
    \/ ReadWhitespace
    \/ ReadStartResponse
    \/ ReadHref
    \/ ReadStartPropstat
    \/ ReadStatus
    \/ ReadStartProp
    \/ ReadProperty
    \/ ReadEndProp
    \/ ReadEndPropstat
    \/ ReadEndResponse

SpecParse == ParseInit /\ [][ParseNext]_vars

(***************************************************************************)
(* CheckServerJob                                                          *)
(***************************************************************************)
statusphpC == <<"s", "t", "a", "t", "u", "s", ".", "p", "h", "p">>

owncloudDirC == <<"o", "w", "n", "c", "l", "o", "u", "d", "/">>

Url(scheme, host, path) == [scheme |-> scheme, host |-> host, path |-> path]

isRelative(url) == url.scheme = ""

\* QUrl::resolved for a reference that is an absolute path.
resolved(base, ref) == IF isRelative(ref) THEN [base EXCEPT !.path = ref.path] ELSE ref

\* Utility::concatUrlPath: the two paths joined by one slash.
concatUrlPath(url, concatPath) ==
    [url EXCEPT !.path =
        IF concatPath = <<>> THEN @
        ELSE IF endsWith(@, <<"/">>) /\ startsWith(concatPath, <<"/">>)
             THEN chop(@, 1) \o concatPath
        ELSE IF ~endsWith(@, <<"/">>) /\ ~startsWith(concatPath, <<"/">>)
             THEN @ \o <<"/">> \o concatPath
        ELSE @ \o concatPath]

\* The bodies a server answers with: size in bytes, what the text is as JSON,
\* and the keys of its top-level object.
BodyChoices ==
    { [size |-> 0, syntax |-> "invalid", keys |-> {}],
      [size |-> 40, syntax |-> "object", keys |-> {"installed", "version"}],
      [size |-> 20, syntax |-> "object", keys |-> {"version"}],
      [size |-> 15, syntax |-> "array", keys |-> {}],
      [size |-> 30, syntax |-> "invalid", keys |-> {}],
      [size |-> 5000, syntax |-> "object", keys |-> {"installed"}] }

\* QIODevice::peek(maxSize): a text cut short is no JSON document any more.
peek(body, maxSize) ==
    IF body.size <= maxSize THEN body
    ELSE [size |-> maxSize, syntax |-> "invalid", keys |-> {}]

isEmpty(body) == body.size = 0

\* QJsonDocument::fromJson and QJsonDocument::object
fromJson(body) ==
    IF body.size > 0 /\ body.syntax \in {"object", "array"}
    THEN [isNull |-> FALSE, error |-> "NoError", isObject |-> body.syntax = "object",
          keys |-> body.keys]
    ELSE [isNull |-> TRUE, error |-> "ParseError", isObject |-> FALSE, keys |-> {}]

object(status) == IF status.isObject THEN status.keys ELSE {}

\* QSslConfiguration: peer certificate chain, session cipher, session ticket
\* (empty, null, empty when the reply carries none).
SslChoices ==
    { [peerCertificateChain |-> <<>>, sessionCipher |-> "", sessionTicket |-> <<>>],
      [peerCertificateChain |-> <<"cert">>, sessionCipher |-> "aes", sessionTicket |-> <<"t">>] }

\* Mutant of mergeSslConfigurationForSslButton: every field is assigned.
mergeSslConfigurationForSslButton_Overwrite(config, acc) ==
    [acc EXCEPT
        !._peerCertificateChain = config.peerCertificateChain,
        !._sessionCipher = config.sessionCipher,
        !._sessionTicket = config.sessionTicket]

mergeSslConfigurationForSslButton(config, acc) ==
    [acc EXCEPT
        !._peerCertificateChain =
            IF Len(config.peerCertificateChain) > 0 THEN config.peerCertificateChain ELSE @,
        !._sessionCipher = IF config.sessionCipher # "" THEN config.sessionCipher ELSE @,
        !._sessionTicket = IF Len(config.sessionTicket) > 0 THEN config.sessionTicket ELSE @]

\* How a request can end: the network error with the HTTP status it goes with.
ReplyStatusChoices ==
    { [error |-> "NoError", httpStatus |-> 200],
      [error |-> "ContentNotFoundError", httpStatus |-> 404],
      [error |-> "AuthenticationRequiredError", httpStatus |-> 401],
      [error |-> "ContentAccessDenied", httpStatus |-> 403],
      [error |-> "TooManyRedirectsError", httpStatus |-> 302],
      [error |-> "InternalServerError", httpStatus |-> 500],
      [error |-> "ConnectionRefusedError", httpStatus |-> 0] }

\* Where the reply comes from: the URL requested, another server after a
\* redirect, or a relative URL; with the URL it is once /status.php is removed.
ElsewhereUrl == Url("https", "other", <<"/", "x", "/", "s", "t", "a", "t", "u", "s", ".", "p", "h", "p">>)

ElsewhereTarget == Url("https", "other", <<"/", "x">>)

RelativeUrl == Url("", "", <<"/", "r", "/", "s", "t", "a", "t", "u", "s", ".", "p", "h", "p">>)

RelativePath == <<"/", "r">>

UrlKinds == {"same", "elsewhere", "relative"}

ReplyUrl(kind, requestUrl) ==
    CASE kind = "same" -> requestUrl
      [] kind = "elsewhere" -> ElsewhereUrl
      [] kind = "relative" -> RelativeUrl

NoReply == [kind |-> "none", url |-> Url("", "", <<>>), error |-> "none", httpStatus |-> 0,
            body |-> [size |-> 0, syntax |-> "invalid", keys |-> {}]]

Replies(requestUrl) ==
    { rep \in { [kind |-> k, url |-> ReplyUrl(k, requestUrl), error |-> st.error,
                 httpStatus |-> st.httpStatus, body |-> b] :
                   k \in UrlKinds, st \in ReplyStatusChoices, b \in BodyChoices } :
        rep.httpStatus = 0 => rep.body.size = 0 }

AccountUrls == { Url("https", "h", <<>>), Url("https", "h", <<"/", "s", "u", "b">>) }

MaxRedirectsChoices == {0, 5}

Signal(sig, attempt, url) == [sig |-> sig, attempt |-> attempt, url |-> url]

\* Mutant of Request: the retry on the subdirectory sends the stored credentials.
Request_RetryWithCredentials(j, serverUrl) ==
    [verb |-> "GET",
     url |-> concatUrlPath(serverUrl, j.path),
     dontAddCredentials |-> ~j._subdirFallback,
     redirectPolicy |-> "NoLessSafeRedirectPolicy",
     validator |-> "desktop",
     maximumRedirectsAllowed |-> j._maxRedirectsAllowed]

\* The request start() sends.
Request(j, serverUrl) ==
    [verb |-> "GET",
     url |-> concatUrlPath(serverUrl, j.path),
     dontAddCredentials |-> TRUE,
     redirectPolicy |-> "NoLessSafeRedirectPolicy",
     validator |-> "desktop",
     maximumRedirectsAllowed |-> j._maxRedirectsAllowed]

\* AbstractNetworkJob::start(): the timeout timer is armed if one is configured.
AbstractNetworkJob_start(j) ==
    [j EXCEPT !.state = "sent", !.timer = IF j.timeoutConfigured THEN "armed" ELSE "unset"]

\* CheckServerJob::start()
CheckServerJob_start(j, acc) ==
    AbstractNetworkJob_start(
        [j EXCEPT !._serverUrl = acc.url, !.reply = "running",
                  !.request = Request(j, acc.url)])

Attempt(j) ==
    [request |-> j.request, serverUrl |-> j._serverUrl,
     ignoreCredentialFailure |-> j.ignoreCredentialFailure, reply |-> NoReply]

\* The reply is a credential failure: the server asks for, or refuses, credentials.
credentialFailure(rep) == rep.httpStatus \in {401, 403}

\* AbstractNetworkJob::slotFinished(): a credential failure of a job that does
\* not ignore it makes the account ask for its credentials again.
handleInvalidCredentials(j, rep, acc) ==
    IF credentialFailure(rep) /\ ~j.ignoreCredentialFailure
    THEN [acc EXCEPT !.credentials = "askedAgain"]
    ELSE acc

\* Mutant of targetUrl: the status resource is not removed from the path.
targetUrl_NotStripped(serverUrl, replyUrl) == resolved(serverUrl, replyUrl)

\* finished(): the URL of the reply, resolved, without "/status.php".
targetUrl(serverUrl, replyUrl) ==
    [resolved(serverUrl, replyUrl) EXCEPT !.path = remove(@, <<"/">> \o statusphpC)]

\* Mutant of subdirRetry: a fallback that already happened is not looked at.
subdirRetry_Unbounded(j, rep) == rep.error = "ContentNotFoundError"

\* finished(): the file was not found and the subdirectory was not tried yet.
subdirRetry(j, rep) == rep.error = "ContentNotFoundError" /\ ~j._subdirFallback

\* Mutant of discoveryResult: the body and the HTTP status are not looked at.
discoveryResult_AnyStatus(rep, body, status) ==
    IF rep.error = "TooManyRedirectsError" THEN "instanceNotFound"
    ELSE IF "installed" \in object(status) THEN "instanceFound"
    ELSE "instanceNotFound"

\* finished(): the signal that reports the reply, given the 4 KiB of body
\* peeked and the JSON document read from them.
discoveryResult(rep, body, status) ==
    IF rep.error = "TooManyRedirectsError" THEN "instanceNotFound"
    ELSE IF isEmpty(body) \/ rep.httpStatus # 200 THEN "instanceNotFound"
    ELSE IF "installed" \in object(status) THEN "instanceFound"
    ELSE "instanceNotFound"

\* finished(): redirectDetected, if the target is not the server URL.
RedirectSignals(j, target, n) ==
    IF j._serverUrl # target THEN <<Signal("redirectDetected", n, target)>> ELSE <<>>

\* Mutant of FinishedRetry: the job goes on after the restart and reports.
FinishedRetry_FallsThrough(rep, target, acc) ==
    /\ job' = [CheckServerJob_start([job EXCEPT !._subdirFallback = TRUE,
                                                !.path = owncloudDirC \o statusphpC], acc)
                  EXCEPT !.state = "deleteLater", !.timer = "stopped"]
    /\ account' = acc
    /\ signals' = signals \o RedirectSignals(job, target, Len(attempts))
                          \o <<Signal("instanceNotFound", Len(attempts), rep.url)>>
    /\ attempts' = Append([attempts EXCEPT ![Len(attempts)].reply = rep], Attempt(job'))

\* finished() restarts the job on the subdirectory path and returns false.
FinishedRetry(rep, target, acc) ==
    /\ job' = CheckServerJob_start([job EXCEPT !._subdirFallback = TRUE,
                                               !.path = owncloudDirC \o statusphpC], acc)
    /\ account' = acc
    /\ signals' = signals \o RedirectSignals(job, target, Len(attempts))
    /\ attempts' = Append([attempts EXCEPT ![Len(attempts)].reply = rep], Attempt(job'))

\* finished() reports the reply and returns true: the job is deleted later.
FinishedReport(rep, target, acc) ==
    /\ job' = [job EXCEPT !.state = "deleteLater", !.reply = "finished", !.timer = "stopped"]
    /\ account' = acc
    /\ signals' = signals \o RedirectSignals(job, target, Len(attempts))
                          \o <<Signal(discoveryResult(rep, peek(rep.body, 4 * 1024),
                                                      fromJson(peek(rep.body, 4 * 1024))),
                                      Len(attempts),
                                      target)>>
    /\ attempts' = [attempts EXCEPT ![Len(attempts)].reply = rep]

\* CheckServerJob::finished() on the reply `rep`; `acc` is the account once the
\* slot of redirectDetected has run and the TLS session info is merged.
CheckServerJob_finished(rep, target, acc) ==
    IF subdirRetry(job, rep) THEN FinishedRetry(rep, target, acc)
    ELSE FinishedReport(rep, target, acc)

\* The slot the caller connects to redirectDetected may store the new URL.
AccountAfterRedirect(target, persist) ==
    IF persist /\ job._serverUrl # target THEN [account EXCEPT !.url = target] ELSE account

\* The caller starts the job.
Start ==
    /\ job.kind = "CheckServerJob" /\ job.state = "created"
    /\ job' = CheckServerJob_start(job, account)
    /\ attempts' = Append(attempts, Attempt(job'))
    /\ UNCHANGED <<account, signals, parseVars>>

\* AbstractNetworkJob::slotFinished(): a reply is handed to finished() while
\* the job waits for it; a job that timed out or reported is terminal and
\* ignores it.
slotFinished(j) == j.state = "sent" /\ j.reply = "running"

\* The reply finishes while the job waits for it: finished() runs.
ReplyFinished ==
    /\ job.kind = "CheckServerJob" /\ slotFinished(job)
    /\ \E rep \in Replies(job.request.url), config \in SslChoices, persist \in BOOLEAN :
          CheckServerJob_finished(
              rep,
              targetUrl(job._serverUrl, rep.url),
              handleInvalidCredentials(
                  job, rep,
                  mergeSslConfigurationForSslButton(
                      config,
                      AccountAfterRedirect(targetUrl(job._serverUrl, rep.url), persist))))
    /\ UNCHANGED parseVars

\* Mutant of OnTimedOut: deleteLater() is not called, the job goes on waiting.
OnTimedOut_NotDeleted ==
    /\ job.kind = "CheckServerJob" /\ job.state = "sent" /\ job.timer = "armed"
    /\ signals' = IF job.reply = "running"
                  THEN Append(signals, Signal("timeout", Len(attempts), job.request.url))
                  ELSE signals
    /\ job' = [job EXCEPT !.timer = "expired"]
    /\ UNCHANGED <<account, attempts, parseVars>>

\* Mutant of OnTimedOut: the expiry is reported as instanceNotFound.
OnTimedOut_NotFound ==
    /\ job.kind = "CheckServerJob" /\ job.state = "sent" /\ job.timer = "armed"
    /\ signals' = IF job.reply = "running"
                  THEN Append(signals, Signal("instanceNotFound", Len(attempts), job.request.url))
                  ELSE signals
    /\ job' = [job EXCEPT !.state = "deleteLater", !.timer = "expired"]
    /\ UNCHANGED <<account, attempts, parseVars>>

\* CheckServerJob::onTimedOut(): the single-shot timer of the job expired.
OnTimedOut ==
    /\ job.kind = "CheckServerJob" /\ job.state = "sent" /\ job.timer = "armed"
    /\ signals' = IF job.reply = "running"
                  THEN Append(signals, Signal("timeout", Len(attempts), job.request.url))
                  ELSE signals
    /\ job' = [job EXCEPT !.state = "deleteLater", !.timer = "expired"]
    /\ UNCHANGED <<account, attempts, parseVars>>

\* The transport completes the request of a job that timed out and is not
\* deleted yet: slotFinished() does not hand the reply to finished().
LateReply ==
    /\ job.kind = "CheckServerJob" /\ job.reply = "running" /\ ~slotFinished(job)
    /\ job' = [job EXCEPT !.reply = "finished"]
    /\ UNCHANGED <<account, signals, attempts, parseVars>>

\* CheckServerJob::metaDataChangedSlot()
MetaDataChangedSlot ==
    /\ job.kind = "CheckServerJob" /\ job.state = "sent" /\ job.reply = "running"
    /\ \E config \in SslChoices :
          account' = mergeSslConfigurationForSslButton(
                         config, [account EXCEPT !.sslConfiguration = config])
    /\ UNCHANGED <<job, signals, attempts, parseVars>>

\* CheckServerJob::encryptedSlot()
EncryptedSlot ==
    /\ job.kind = "CheckServerJob" /\ job.state = "sent" /\ job.reply = "running"
    /\ \E config \in SslChoices :
          account' = mergeSslConfigurationForSslButton(config, account)
    /\ UNCHANGED <<job, signals, attempts, parseVars>>

\* deleteLater(): the event loop deletes the job.
DeferredDelete ==
    /\ job.state = "deleteLater"
    /\ job' = [job EXCEPT !.state = "deleted", !.reply = "none"]
    /\ UNCHANGED <<account, signals, attempts, parseVars>>

\* Mutant of CheckServerJob_new: setIgnoreCredentialFailure(true) is left out.
CheckServerJob_new_NotIgnored(maxRedirects, timeoutConfigured) ==
    [kind |-> "CheckServerJob",
     state |-> "created",
     path |-> statusphpC,
     _subdirFallback |-> FALSE,
     ignoreCredentialFailure |-> FALSE,
     _serverUrl |-> Url("", "", <<>>),
     _maxRedirectsAllowed |-> maxRedirects,
     timeoutConfigured |-> timeoutConfigured,
     timer |-> "unset",
     reply |-> "none",
     request |-> [verb |-> "", url |-> Url("", "", <<>>), dontAddCredentials |-> FALSE,
                  redirectPolicy |-> "", validator |-> "", maximumRedirectsAllowed |-> 0]]

\* The job as its constructor and the caller's setters leave it.
CheckServerJob_new(maxRedirects, timeoutConfigured) ==
    [kind |-> "CheckServerJob",
     state |-> "created",
     path |-> statusphpC,
     _subdirFallback |-> FALSE,
     ignoreCredentialFailure |-> TRUE,
     _serverUrl |-> Url("", "", <<>>),
     _maxRedirectsAllowed |-> maxRedirects,
     timeoutConfigured |-> timeoutConfigured,
     timer |-> "unset",
     reply |-> "none",
     request |-> [verb |-> "", url |-> Url("", "", <<>>), dontAddCredentials |-> FALSE,
                  redirectPolicy |-> "", validator |-> "", maximumRedirectsAllowed |-> 0]]

CheckInit ==
    /\ \E u \in AccountUrls :
          account = [url |-> u,
                     sslConfiguration |-> [peerCertificateChain |-> <<>>, sessionCipher |-> "",
                                           sessionTicket |-> <<>>],
                     _peerCertificateChain |-> <<>>, _sessionCipher |-> "",
                     _sessionTicket |-> <<>>, credentials |-> "valid"]
    /\ \E m \in MaxRedirectsChoices, t \in BOOLEAN : job = CheckServerJob_new(m, t)
    /\ signals = <<>>
    /\ attempts = <<>>
    /\ parser = ParserLocals
    /\ received = <<>>
    /\ parsePc = "idle"
    /\ parseResult = "none"
    /\ open = <<>>
    /\ rootClosed = FALSE
    /\ docPs = NoPropstat
    /\ docCur = NoResponse
    /\ docPrev = NoResponse
    /\ docCount = 0
    /\ docSimple = TRUE
    /\ docBadHref = FALSE
    /\ docRoot = <<>>
    /\ docEnd = "none"

CheckNext ==
    \/ Start
    \/ ReplyFinished
    \/ OnTimedOut
    \/ LateReply
    \/ MetaDataChangedSlot
    \/ EncryptedSlot
    \/ DeferredDelete

SpecCheckServer == CheckInit /\ [][CheckNext]_vars

(***************************************************************************)
(* parseEtag                                                               *)
(***************************************************************************)
MaxTagLen == 3

mid(s, pos) == SubSeq(s, pos + 1, Len(s))

\* QByteArray::replace(before, after): every occurrence, from left to right.
RECURSIVE replace(_, _, _)
replace(s, before, after) ==
    IF s = <<>> THEN <<>>
    ELSE IF startsWith(s, before) THEN after \o replace(mid(s, Len(before)), before, after)
    ELSE <<Head(s)>> \o replace(Tail(s), before, after)

\* Mutant of parseEtag: the weak prefix is left in place.
parseEtag_KeepWeak(header) ==
    IF header = <<>> THEN <<>>
    ELSE IF Len(replace(header, <<"-", "g", "z", "i", "p">>, <<>>)) >= 2
            /\ startsWith(replace(header, <<"-", "g", "z", "i", "p">>, <<>>), <<"\"">>)
            /\ endsWith(replace(header, <<"-", "g", "z", "i", "p">>, <<>>), <<"\"">>)
         THEN SubSeq(replace(header, <<"-", "g", "z", "i", "p">>, <<>>), 2,
                     Len(replace(header, <<"-", "g", "z", "i", "p">>, <<>>)) - 1)
    ELSE replace(header, <<"-", "g", "z", "i", "p">>, <<>>)

\* parseEtag, lines 62-64: the weak prefix goes.
withoutWeak(arr) == IF startsWith(arr, <<"W", "/">>) THEN mid(arr, 2) ELSE arr

\* parseEtag, lines 69-71: one pair of surrounding quotes goes.
withoutQuotes(arr) ==
    IF Len(arr) >= 2 /\ startsWith(arr, <<"\"">>) /\ endsWith(arr, <<"\"">>)
    THEN SubSeq(arr, 2, Len(arr) - 1)
    ELSE arr

parseEtag(header) ==
    IF header = <<>> THEN <<>>
    ELSE withoutQuotes(replace(withoutWeak(header), <<"-", "g", "z", "i", "p">>, <<>>))

\* The entity tags themselves: short texts without quotes.
RECURSIVE TagsOfLen(_)
TagsOfLen(n) ==
    IF n = 0 THEN {<<>>}
    ELSE {<<c>> \o t : c \in {"a", "b", "c", "-"}, t \in TagsOfLen(n - 1)}

Tags == UNION {TagsOfLen(n) : n \in 0..MaxTagLen}

\* The header a server sends for the entity tag `tag`: weak or not, quoted or
\* not, with the -gzip artifact inside the quotes, after them, or without it.
EtagHeader(weak, quoted, gzip, tag) ==
    (IF weak THEN <<"W", "/">> ELSE <<>>)
        \o (IF quoted THEN <<"\"">> ELSE <<>>)
        \o tag
        \o (IF gzip = "inside" THEN <<"-", "g", "z", "i", "p">> ELSE <<>>)
        \o (IF quoted THEN <<"\"">> ELSE <<>>)
        \o (IF gzip = "outside" THEN <<"-", "g", "z", "i", "p">> ELSE <<>>)

\* The variables of the parser while no document is parsed.
ParseIdle ==
    /\ parser = ParserLocals
    /\ received = <<>>
    /\ parsePc = "idle"
    /\ parseResult = "none"
    /\ open = <<>>
    /\ rootClosed = FALSE
    /\ docPs = NoPropstat
    /\ docCur = NoResponse
    /\ docPrev = NoResponse
    /\ docCount = 0
    /\ docSimple = TRUE
    /\ docBadHref = FALSE
    /\ docRoot = <<>>
    /\ docEnd = "none"

EtagInit ==
    /\ \E weak \in BOOLEAN, quoted \in BOOLEAN, gzip \in {"none", "inside", "outside"},
          tag \in Tags :
          job = [kind |-> "parseEtag", state |-> "called", tag |-> tag,
                 header |-> EtagHeader(weak, quoted, gzip, tag), result |-> <<>>]
    /\ account = AccountIdle
    /\ signals = <<>>
    /\ attempts = <<>>
    /\ ParseIdle

\* parseEtag is called on the header and returns.
ParseEtagCall ==
    /\ job.kind = "parseEtag" /\ job.state = "called"
    /\ job' = [job EXCEPT !.state = "returned", !.result = parseEtag(job.header)]
    /\ UNCHANGED <<account, signals, attempts, parseVars>>

SpecParseEtag == EtagInit /\ [][ParseEtagCall]_vars

(***************************************************************************)
(* The verb jobs: one job, its request and the reply it handles            *)
(***************************************************************************)
\* How a request can end: the network error and the HTTP status of the reply;
\* a request that timed out or failed at transport level has no status.
HttpOutcomes ==
    { [error |-> "NoError", httpStatus |-> 207],
      [error |-> "NoError", httpStatus |-> 200],
      [error |-> "AuthenticationRequiredError", httpStatus |-> 401],
      [error |-> "ContentAccessDenied", httpStatus |-> 403],
      [error |-> "ContentNotFoundError", httpStatus |-> 404],
      [error |-> "ConnectionRefusedError", httpStatus |-> 0],
      [error |-> "OperationCanceledError", httpStatus |-> 0] }

ContentTypeXml == <<"a", "p", "p", "l", "i", "c", "a", "t", "i", "o", "n", "/", "x", "m", "l", ";", " ", "c", "h", "a", "r", "s", "e", "t", "=", "u", "t", "f", "-", "8">>

ContentTypes ==
    { ContentTypeXml,
      ContentTypeXml \o <<";", " ", "q", "=", "1">>,
      <<"a", "p", "p", "l", "i", "c", "a", "t", "i", "o", "n", "/", "x", "m", "l">>,
      <<"t", "e", "x", "t", "/", "h", "t", "m", "l", ";", " ", "c", "h", "a", "r", "s", "e", "t", "=", "u", "t", "f", "-", "8">>,
      <<>> }

JobReply(outcome, contentType, body) ==
    [error |-> outcome.error, httpStatus |-> outcome.httpStatus, contentType |-> contentType,
     body |-> body]

JobSignal(sig, arg) == [sig |-> sig, arg |-> arg]

HttpError(code) == [httpError |-> code]

SentRequest(verb, url, headers, body) ==
    [verb |-> verb, url |-> url, headers |-> headers, body |-> body]

makeDavUrl(path) == [base |-> "davUrl", path |-> path]

makeAccountUrl(path) == [base |-> "url", path |-> path]

\* A job as the constructor of AbstractNetworkJob leaves it.
NewJob(kind, path) ==
    [kind |-> kind, state |-> "created", path |-> path, ignoreCredentialFailure |-> FALSE,
     timeoutConfigured |-> FALSE, timer |-> "unset", reply |-> "none"]

\* start(): the request is sent and AbstractNetworkJob::start() runs.
JobStart(kind, request) ==
    /\ job.kind = kind /\ job.state = "created"
    /\ job' = AbstractNetworkJob_start([job EXCEPT !.reply = "running"])
    /\ attempts' = <<[request |-> request, reply |-> NoReply]>>
    /\ UNCHANGED <<account, signals, parseVars>>

\* finished() handled the reply `rep`, emitted `sigs` and returned true.
JobFinished(rep, sigs) ==
    /\ job' = [job EXCEPT !.state = "deleteLater", !.reply = "finished", !.timer = "stopped"]
    /\ signals' = signals \o sigs
    /\ attempts' = [attempts EXCEPT ![1].reply = rep]
    /\ account' = handleInvalidCredentials(job, rep, account)

(***************************************************************************)
(* RequestEtagJob                                                          *)
(***************************************************************************)
EtagXml == "<d:propfind xmlns:d=\"DAV:\"><d:prop><d:getetag/></d:prop></d:propfind>"

GetetagElement(text) == <<StartTok(DAV, S_getetag), CharsTok(text), EndTok(DAV, S_getetag)>>

\* The bodies of a reply to the PROPFIND for the entity tag.
EtagBodies ==
    { <<StartTok(DAV, S_multistatus), StartTok(DAV, S_prop)>>
          \o GetetagElement(<<"\"", "a", "b", "c", "\"">>)
          \o <<EndTok(DAV, S_prop), EndTok(DAV, S_multistatus), EndDocumentTok>>,
      <<StartTok(DAV, S_multistatus)>>
          \o GetetagElement(<<"W", "/", "\"", "a", "-", "g", "z", "i", "p", "\"">>) \o GetetagElement(<<"\"", "\"">>)
          \o <<EndTok(DAV, S_multistatus), EndDocumentTok>>,
      <<StartTok(DAV, S_multistatus), StartTok(OCNS, S_getetag), CharsTok(<<"x">>),
        EndTok(OCNS, S_getetag), EndTok(DAV, S_multistatus), EndDocumentTok>>,
      <<StartTok(DAV, S_multistatus)>> \o GetetagElement(<<"a">>) \o <<InvalidTok>>,
      <<InvalidTok>> }

\* RequestEtagJob::finished(), lines 118-124: the text of one getetag element.
EtagAppended(etag, etagText) ==
    IF parseEtag(etagText) # <<>> THEN etag \o parseEtag(etagText) ELSE etag \o etagText

\* RequestEtagJob::finished(), lines 113-127: the loop over the document.
RECURSIVE EtagLoop(_, _)
EtagLoop(toks, etag) ==
    IF toks = <<>> \/ Head(toks).type \in {"Invalid", "EndDocument"} THEN etag
    ELSE IF Head(toks).type = "StartElement" /\ Head(toks).ns = DAV
            /\ Head(toks).name = S_getetag
    THEN IF readElementText(Tail(toks)).error
         THEN EtagAppended(etag, readElementText(Tail(toks)).text)
         ELSE EtagLoop(readElementText(Tail(toks)).rest,
                       EtagAppended(etag, readElementText(Tail(toks)).text))
    ELSE EtagLoop(Tail(toks), etag)

RequestEtagJob_finished(rep) ==
    IF rep.httpStatus = 207
    THEN <<JobSignal("etagRetreived", EtagLoop(rep.body, <<>>)),
           JobSignal("finishedWithResult", EtagLoop(rep.body, <<>>))>>
    ELSE <<JobSignal("finishedWithResult", HttpError(rep.httpStatus))>>

RequestEtagJobStart ==
    JobStart("RequestEtagJob",
             SentRequest("PROPFIND", makeDavUrl(job.path), {<<"Depth", "0">>}, EtagXml))

RequestEtagJobFinished ==
    /\ slotFinished(job) /\ job.kind = "RequestEtagJob"
    /\ \E o \in HttpOutcomes, b \in EtagBodies :
          JobFinished(JobReply(o, ContentTypeXml, b), RequestEtagJob_finished(JobReply(o, ContentTypeXml, b)))
    /\ UNCHANGED parseVars

(***************************************************************************)
(* MkColJob, ProppatchJob (its reply), EntityExistsJob, AvatarJob          *)
(***************************************************************************)
MkColJob_finished(rep) == <<JobSignal("finished", rep.error)>>

\* MkColJob::start(): the extra headers are set after Content-Length.
MkColHeaders(extraHeaders) ==
    {h \in {<<"Content-Length", "0">>} : \A e \in extraHeaders : e[1] # h[1]} \cup extraHeaders

MkColJobStart ==
    JobStart("MkColJob",
             SentRequest("MKCOL",
                         IF job._url.valid THEN job._url ELSE makeDavUrl(job.path),
                         MkColHeaders(job._extraHeaders), ""))

MkColJobFinished ==
    /\ slotFinished(job) /\ job.kind = "MkColJob"
    /\ \E o \in HttpOutcomes :
          JobFinished(JobReply(o, <<>>, <<>>), MkColJob_finished(JobReply(o, <<>>, <<>>)))
    /\ UNCHANGED parseVars

ProppatchJob_finished(rep) ==
    IF rep.httpStatus = 207 THEN <<JobSignal("success", <<>>)>>
    ELSE <<JobSignal("finishedWithError", <<>>)>>

ProppatchJobFinished ==
    /\ slotFinished(job) /\ job.kind = "ProppatchJob"
    /\ \E o \in HttpOutcomes :
          JobFinished(JobReply(o, ContentTypeXml, <<>>),
                      ProppatchJob_finished(JobReply(o, ContentTypeXml, <<>>)))
    /\ UNCHANGED parseVars

EntityExistsJob_finished(rep) == <<JobSignal("exists", rep.httpStatus)>>

EntityExistsJobStart ==
    JobStart("EntityExistsJob", SentRequest("HEAD", makeAccountUrl(job.path), {}, ""))

EntityExistsJobFinished ==
    /\ slotFinished(job) /\ job.kind = "EntityExistsJob"
    /\ \E o \in HttpOutcomes :
          JobFinished(JobReply(o, <<>>, <<>>), EntityExistsJob_finished(JobReply(o, <<>>, <<>>)))
    /\ UNCHANGED parseVars

\* The bodies of a reply to the GET of an avatar: their size and whether
\* QPixmap::loadFromData reads an image from them.
AvatarBodies == { [size |-> 0, image |-> FALSE], [size |-> 300, image |-> TRUE],
                  [size |-> 20, image |-> FALSE] }

NullPixmap == [isNull |-> TRUE, size |-> 0]

AvatarJob_finished(rep) ==
    IF rep.httpStatus = 200 /\ rep.body.size # 0 /\ rep.body.image
    THEN <<JobSignal("avatarPixmap", [isNull |-> FALSE, size |-> rep.body.size])>>
    ELSE <<JobSignal("avatarPixmap", NullPixmap)>>

AvatarJobStart ==
    JobStart("AvatarJob", SentRequest("GET", job._avatarUrl, {}, ""))

AvatarJobFinished ==
    /\ slotFinished(job) /\ job.kind = "AvatarJob"
    /\ \E o \in HttpOutcomes, b \in AvatarBodies :
          JobFinished(JobReply(o, <<>>, b), AvatarJob_finished(JobReply(o, <<>>, b)))
    /\ UNCHANGED parseVars

(***************************************************************************)
(* ProppatchJob::start and the request bodies                              *)
(***************************************************************************)
left(s, n) == SubSeq(s, 1, n)

\* QByteArray::lastIndexOf(c): the last position of c, counted from 0, or -1.
lastIndexOf(s, c) ==
    IF \E i \in 1..Len(s) : s[i] = c
    THEN (CHOOSE i \in 1..Len(s) : s[i] = c /\ \A k \in (i + 1)..Len(s) : s[k] # c) - 1
    ELSE -1

\* ProppatchJob::start(), lines 731-736: the name and the namespace of a key.
keyName(key) == IF contains(key, <<":">>) THEN mid(key, lastIndexOf(key, ":") + 1) ELSE key

keyNs(key) == IF contains(key, <<":">>) THEN left(key, lastIndexOf(key, ":")) ELSE <<>>

\* Mutant of ProppatchElement: the value is left out.
ProppatchElement_NoValue(key, value) ==
    <<" ", " ", " ", " ", "<">> \o keyName(key)
        \o (IF keyNs(key) # <<>> THEN <<" ", "x", "m", "l", "n", "s", "=", "\"">> \o keyNs(key) \o <<"\"", " ">> ELSE <<>>)
        \o <<">">> \o <<"<", "/">> \o keyName(key) \o <<">", "\n">>

\* ProppatchJob::start(), lines 738-744: the element written for one property.
ProppatchElement(key, value) ==
    <<" ", " ", " ", " ", "<">> \o keyName(key)
        \o (IF keyNs(key) # <<>> THEN <<" ", "x", "m", "l", "n", "s", "=", "\"">> \o keyNs(key) \o <<"\"", " ">> ELSE <<>>)
        \o <<">">> \o value \o <<"<", "/">> \o keyName(key) \o <<">", "\n">>

\* The loop over the properties: a QMap, iterated in the order of its keys.
RECURSIVE ProppatchPropStr(_)
ProppatchPropStr(properties) ==
    IF properties = <<>> THEN <<>>
    ELSE ProppatchElement(Head(properties)[1], Head(properties)[2])
             \o ProppatchPropStr(Tail(properties))

ProppatchXml(properties) ==
    <<"<", "?", "x", "m", "l", " ", "v", "e", "r", "s", "i", "o", "n", "=", "\"", "1", ".", "0", "\"", " ", "?", ">">> \o <<"\n">>
        \o <<"<", "d", ":", "p", "r", "o", "p", "e", "r", "t", "y", "u", "p", "d", "a", "t", "e", " ", "x", "m", "l", "n", "s", ":", "d", "=", "\"", "D", "A", "V", ":", "\"", ">">> \o <<"\n">>
        \o <<" ", " ", "<", "d", ":", "s", "e", "t", ">", "<", "d", ":", "p", "r", "o", "p", ">">> \o <<"\n">>
        \o ProppatchPropStr(properties)
        \o <<" ", " ", "<", "/", "d", ":", "p", "r", "o", "p", ">", "<", "/", "d", ":", "s", "e", "t", ">">> \o <<"\n">>
        \o <<"<", "/", "d", ":", "p", "r", "o", "p", "e", "r", "t", "y", "u", "p", "d", "a", "t", "e", ">">> \o <<"\n">>

ProppatchJobStart ==
    JobStart("ProppatchJob",
             SentRequest("PROPPATCH", makeDavUrl(job.path), {}, ProppatchXml(job._properties)))

(***************************************************************************)
(* QXmlStreamReader on a request body: the text becomes tokens             *)
(***************************************************************************)
\* The position of the first c in s, counted from 0, or Len(s) without one.
indexOf(s, c) ==
    IF \E i \in 1..Len(s) : s[i] = c
    THEN (CHOOSE i \in 1..Len(s) : s[i] = c /\ \A k \in 1..(i - 1) : s[k] # c) - 1
    ELSE Len(s)

isWhitespace(s) == \A i \in 1..Len(s) : s[i] \in {" ", "\n", "\t"}

\* What stands between < and > : the qualified name, then the attributes.
TagQName(content) ==
    left(content, indexOf(IF endsWith(content, <<"/">>) THEN chop(content, 1) ELSE content, " "))

TagPrefix(content) == keyNs(TagQName(content))

TagLocalName(content) == keyName(TagQName(content))

\* The value of the attribute xmlns, with the text after its opening quote.
XmlnsValue(afterQuote) == left(afterQuote, indexOf(afterQuote, "\""))

XmlnsAttribute == <<" ", "x", "m", "l", "n", "s", "=", "\"">>

RECURSIVE AfterFirst(_, _)
\* The text after the first occurrence of p in s.
AfterFirst(s, p) ==
    IF s = <<>> THEN <<>>
    ELSE IF startsWith(s, p) THEN mid(s, Len(p))
    ELSE AfterFirst(Tail(s), p)

TagNamespace(content) ==
    IF contains(content, XmlnsAttribute)
    THEN XmlnsValue(AfterFirst(content, XmlnsAttribute))
    ELSE IF TagPrefix(content) = <<"d">> THEN DAV
    ELSE IF TagPrefix(content) = <<"o", "c">> THEN OCNS
    ELSE <<>>

RECURSIVE xmlTokens(_, _)
\* The element with the tag `content` starts; `rest` follows the tag.
XmlStartTag(content, rest, opened) ==
    IF endsWith(content, <<"/">>)
    THEN <<StartTok(TagNamespace(content), TagLocalName(content)),
           EndTok(TagNamespace(content), TagLocalName(content))>> \o xmlTokens(rest, opened)
    ELSE <<StartTok(TagNamespace(content), TagLocalName(content))>>
             \o xmlTokens(rest, Append(opened, TagQName(content)))

\* The element named `qname` ends: it has to be the one opened last.
XmlEndTag(qname, rest, opened) ==
    IF opened = <<>> \/ opened[Len(opened)] # qname THEN <<InvalidTok>>
    ELSE <<EndTok(IF keyNs(qname) = <<"d">> THEN DAV ELSE <<>>, keyName(qname))>>
             \o xmlTokens(rest, chop(opened, 1))

\* Text up to the next tag: outside the root only white space may stand.
XmlText(text, rest, opened) ==
    IF contains(text, <<"&">>) THEN <<InvalidTok>>
    ELSE IF opened = <<>> THEN (IF isWhitespace(text) THEN xmlTokens(rest, opened)
                                ELSE <<InvalidTok>>)
    ELSE <<CharsTok(text)>> \o xmlTokens(rest, opened)

\* The tokens QXmlStreamReader reads from the text s; `opened` are the
\* elements open at its start.
xmlTokens(s, opened) ==
    IF s = <<>> THEN (IF opened = <<>> THEN <<EndDocumentTok>> ELSE <<InvalidTok>>)
    ELSE IF s[1] # "<" THEN XmlText(left(s, indexOf(s, "<")), mid(s, indexOf(s, "<")), opened)
    ELSE IF indexOf(s, ">") = Len(s) THEN <<InvalidTok>>
    ELSE IF startsWith(s, <<"<", "?">>) THEN xmlTokens(mid(s, indexOf(s, ">") + 1), opened)
    ELSE IF startsWith(s, <<"<", "/">>)
    THEN XmlEndTag(SubSeq(s, 3, indexOf(s, ">")), mid(s, indexOf(s, ">") + 1), opened)
    ELSE XmlStartTag(SubSeq(s, 2, indexOf(s, ">")), mid(s, indexOf(s, ">") + 1), opened)

\* QXmlStreamReader::readElementText(SkipChildElements): the text up to the
\* end of the current element, child elements left out.
RECURSIVE readElementTextSkip(_, _)
readElementTextSkip(toks, depth) ==
    IF toks = <<>> \/ Head(toks).type \in {"Invalid", "EndDocument"}
    THEN [text |-> <<>>, rest |-> <<>>, error |-> TRUE]
    ELSE IF Head(toks).type = "StartElement" THEN readElementTextSkip(Tail(toks), depth + 1)
    ELSE IF Head(toks).type = "EndElement"
    THEN IF depth = 0 THEN [text |-> <<>>, rest |-> Tail(toks), error |-> FALSE]
         ELSE readElementTextSkip(Tail(toks), depth - 1)
    ELSE IF depth > 0 THEN readElementTextSkip(Tail(toks), depth)
    ELSE [readElementTextSkip(Tail(toks), depth) EXCEPT !.text = Head(toks).text \o @]

(***************************************************************************)
(* PropfindJob                                                             *)
(***************************************************************************)
\* PropfindJob::start(), lines 579-586: the element asking for one property.
PropfindElement(prop) ==
    IF contains(prop, <<":">>)
    THEN <<" ", " ", " ", " ", "<">> \o mid(prop, lastIndexOf(prop, ":") + 1) \o <<" ", "x", "m", "l", "n", "s", "=", "\"">>
             \o left(prop, lastIndexOf(prop, ":")) \o <<"\"", " ", "/", ">">> \o <<"\n">>
    ELSE <<" ", " ", " ", " ", "<", "d", ":">> \o prop \o <<" ", "/", ">">> \o <<"\n">>

RECURSIVE PropfindPropStr(_)
PropfindPropStr(properties) ==
    IF properties = <<>> THEN <<>>
    ELSE PropfindElement(Head(properties)) \o PropfindPropStr(Tail(properties))

PropfindXml(properties) ==
    <<"<", "?", "x", "m", "l", " ", "v", "e", "r", "s", "i", "o", "n", "=", "\"", "1", ".", "0", "\"", " ", "?", ">">> \o <<"\n">>
        \o <<"<", "d", ":", "p", "r", "o", "p", "f", "i", "n", "d", " ", "x", "m", "l", "n", "s", ":", "d", "=", "\"", "D", "A", "V", ":", "\"", ">">> \o <<"\n">>
        \o <<" ", " ", "<", "d", ":", "p", "r", "o", "p", ">">> \o <<"\n">>
        \o PropfindPropStr(properties)
        \o <<" ", " ", "<", "/", "d", ":", "p", "r", "o", "p", ">">> \o <<"\n">>
        \o <<"<", "/", "d", ":", "p", "r", "o", "p", "f", "i", "n", "d", ">">> \o <<"\n">>

PropfindJobStart ==
    JobStart("PropfindJob",
             SentRequest("PROPFIND", makeDavUrl(job.path),
                         {<<"Depth", "0">>, <<"priority", "HighPriority">>},
                         PropfindXml(job._properties)))

\* PropfindJob::finished(), lines 624-639: the loop over the document, with
\* the stack of the elements entered and the items read so far.  The reader
\* reports an end element only for an element it reported the start of, so
\* the stack is not empty there.
RECURSIVE PropfindLoop(_, _, _)
PropfindItem(name, r, curElement, items) ==
    IF r.error THEN [items |-> insert(items, name, r.text), hasError |-> TRUE]
    ELSE PropfindLoop(r.rest, curElement, insert(items, name, r.text))

PropfindLoop(toks, curElement, items) ==
    IF toks = <<>> \/ Head(toks).type = "EndDocument" THEN [items |-> items, hasError |-> FALSE]
    ELSE IF Head(toks).type = "Invalid" THEN [items |-> items, hasError |-> TRUE]
    ELSE IF Head(toks).type = "StartElement"
    THEN IF curElement # <<>> /\ curElement[Len(curElement)] = S_prop
         THEN PropfindItem(Head(toks).name, readElementTextSkip(Tail(toks), 0), curElement, items)
         ELSE PropfindLoop(Tail(toks), Append(curElement, Head(toks).name), items)
    ELSE IF Head(toks).type = "EndElement"
    THEN IF curElement # <<>> /\ curElement[Len(curElement)] = Head(toks).name
         THEN PropfindLoop(Tail(toks), chop(curElement, 1), items)
         ELSE PropfindLoop(Tail(toks), curElement, items)
    ELSE PropfindLoop(Tail(toks), curElement, items)

\* PropfindJob::finished(), lines 640-645: what is emitted after the loop.
PropfindEmitted(r) ==
    IF r.hasError THEN <<JobSignal("finishedWithError", <<>>)>>
    ELSE <<JobSignal("result", r.items)>>

PropfindJob_finished(rep) ==
    IF rep.httpStatus = 207 THEN PropfindEmitted(PropfindLoop(rep.body, <<>>, EmptyMap))
    ELSE <<JobSignal("finishedWithError", <<>>)>>

(***************************************************************************)
(* LsColJob                                                                *)
(***************************************************************************)
\* LsColJob::start(), lines 339-351: the element asking for one property.
LsColElement(prop) ==
    IF contains(prop, <<":">>)
    THEN IF left(prop, lastIndexOf(prop, ":")) = OCNS
         THEN <<" ", " ", " ", " ", "<", "o", "c", ":">> \o mid(prop, lastIndexOf(prop, ":") + 1) \o <<" ", "/", ">">> \o <<"\n">>
         ELSE <<" ", " ", " ", " ", "<">> \o mid(prop, lastIndexOf(prop, ":") + 1) \o <<" ", "x", "m", "l", "n", "s", "=", "\"">>
                  \o left(prop, lastIndexOf(prop, ":")) \o <<"\"", " ", "/", ">">> \o <<"\n">>
    ELSE <<" ", " ", " ", " ", "<", "d", ":">> \o prop \o <<" ", "/", ">">> \o <<"\n">>

RECURSIVE LsColPropStr(_)
LsColPropStr(properties) ==
    IF properties = <<>> THEN <<>>
    ELSE LsColElement(Head(properties)) \o LsColPropStr(Tail(properties))

LsColXml(properties) ==
    <<"<", "?", "x", "m", "l", " ", "v", "e", "r", "s", "i", "o", "n", "=", "\"", "1", ".", "0", "\"", " ", "?", ">">> \o <<"\n">>
        \o <<"<", "d", ":", "p", "r", "o", "p", "f", "i", "n", "d", " ", "x", "m", "l", "n", "s", ":", "d", "=", "\"", "D", "A", "V", ":", "\"", " ", "x", "m", "l", "n", "s", ":", "o", "c", "=", "\"", "h", "t", "t", "p", ":", "/", "/", "o", "w", "n", "c", "l", "o", "u", "d", ".", "o", "r", "g", "/", "n", "s", "\"", ">">> \o <<"\n">>
        \o <<" ", " ", "<", "d", ":", "p", "r", "o", "p", ">">> \o <<"\n">>
        \o LsColPropStr(properties)
        \o <<" ", " ", "<", "/", "d", ":", "p", "r", "o", "p", ">">> \o <<"\n">>
        \o <<"<", "/", "d", ":", "p", "r", "o", "p", "f", "i", "n", "d", ">">> \o <<"\n">>

LsColJobStart ==
    JobStart("LsColJob",
             SentRequest("PROPFIND",
                         IF job._url.valid THEN job._url ELSE makeDavUrl(job.path),
                         {<<"Depth", "1">>}, LsColXml(job._properties)))

\* One response of a multistatus: its href and one propstat with one property.
LsColResponse(hrefRaw, statusText) ==
    <<StartTok(DAV, S_response),
      StartTok(DAV, S_href), CharsTok(hrefRaw), EndTok(DAV, S_href),
      StartTok(DAV, S_propstat),
      StartTok(DAV, S_prop),
      StartTok(DAV, S_getetag), CharsTok(<<"e", "1">>), EndTok(DAV, S_getetag),
      EndTok(DAV, S_prop),
      StartTok(DAV, S_status), CharsTok(statusText), EndTok(DAV, S_status),
      EndTok(DAV, S_propstat),
      EndTok(DAV, S_response)>>

\* The bodies of a reply to the PROPFIND of a collection: listings of one or
\* two entries, one with an href outside the collection, one cut short, one
\* that is no multistatus.
LsColBodies ==
    { <<StartTok(DAV, S_multistatus)>>
          \o LsColResponse(<<"/", "a", "/">>, S_HTTP200 \o <<" ", "O", "K">>)
          \o LsColResponse(<<"/", "a", "/", "b">>, S_HTTP200 \o <<" ", "O", "K">>)
          \o <<EndTok(DAV, S_multistatus), EndDocumentTok>>,
      <<StartTok(DAV, S_multistatus)>>
          \o LsColResponse(<<"/", "a", "/">>, S_HTTP200 \o <<" ", "O", "K">>)
          \o LsColResponse(<<"/", "x", "/", "b">>, S_HTTP200 \o <<" ", "O", "K">>)
          \o <<EndTok(DAV, S_multistatus), EndDocumentTok>>,
      <<StartTok(DAV, S_multistatus)>>
          \o LsColResponse(<<"/", "a", "/">>, S_HTTP200 \o <<" ", "O", "K">>)
          \o <<InvalidTok>>,
      <<StartTok(DAV, S_error), EndTok(DAV, S_error), EndDocumentTok>>,
      <<InvalidTok>> }

\* The signals of the parser, forwarded by the connections made in finished().
RECURSIVE Forwarded(_)
Forwarded(emitted) ==
    IF emitted = <<>> THEN <<>>
    ELSE <<JobSignal(Head(emitted).sig, Head(emitted))>> \o Forwarded(Tail(emitted))

\* finished(), lines 384-398: the body is parsed; parse() returning false is
\* reported as finishedWithError.
LsColParsed(rep) ==
    /\ Parse(rep.body, TRUE)
    /\ JobFinished(rep, Forwarded(parser'.emitted)
                            \o (IF parseResult' = "false"
                                THEN <<JobSignal("finishedWithError", rep.httpStatus)>>
                                ELSE <<>>))
    /\ UNCHANGED <<open, rootClosed, docPs, docCur, docPrev, docCount, docSimple,
                   docBadHref, docRoot, docEnd>>

LsColRejected(rep) ==
    /\ JobFinished(rep, <<JobSignal("finishedWithError", rep.httpStatus)>>)
    /\ UNCHANGED parseVars

\* Mutant of LsColJob_finished: the content type is not looked at.
LsColJob_finished_AnyContentType(rep) ==
    IF rep.httpStatus = 207 THEN LsColParsed(rep) ELSE LsColRejected(rep)

\* Mutant of LsColJob_finished: a failed parse is not reported.
LsColJob_finished_ParseSilent(rep) ==
    IF rep.httpStatus = 207 /\ contains(rep.contentType, ContentTypeXml)
    THEN /\ Parse(rep.body, TRUE)
         /\ JobFinished(rep, Forwarded(parser'.emitted))
         /\ UNCHANGED <<open, rootClosed, docPs, docCur, docPrev, docCount, docSimple,
                        docBadHref, docRoot, docEnd>>
    ELSE LsColRejected(rep)

\* LsColJob::finished()
LsColJob_finished(rep) ==
    IF rep.httpStatus = 207 /\ contains(rep.contentType, ContentTypeXml)
    THEN LsColParsed(rep)
    ELSE LsColRejected(rep)

LsColJobFinished ==
    /\ slotFinished(job) /\ job.kind = "LsColJob"
    /\ \E o \in HttpOutcomes, ct \in ContentTypes, b \in LsColBodies :
          LsColJob_finished(JobReply(o, ct, b))

(***************************************************************************)
(* JsonApiJob                                                              *)
(***************************************************************************)
\* The digits s starts with.
RECURSIVE digitsAt(_)
digitsAt(s) ==
    IF s # <<>> /\ Head(s) \in Digits THEN <<Head(s)>> \o digitsAt(Tail(s)) ELSE <<>>

\* QRegExp `before(\d+)after` matched at the start of s.
matchesAt(s, before, after) ==
    /\ startsWith(s, before)
    /\ digitsAt(mid(s, Len(before))) # <<>>
    /\ startsWith(mid(s, Len(before) + Len(digitsAt(mid(s, Len(before))))), after)

\* QString::contains(rex) and rex.cap(1): the first match in s.
RECURSIVE regexCap(_, _, _)
regexCap(s, before, after) ==
    IF s = <<>> THEN [matched |-> FALSE, cap |-> <<>>]
    ELSE IF matchesAt(s, before, after)
    THEN [matched |-> TRUE, cap |-> digitsAt(mid(s, Len(before)))]
    ELSE regexCap(Tail(s), before, after)

\* QString::toInt(): 0 for a number that does not fit an int.
toInt(s) == IF s = <<>> \/ DecimalValue(s) > 2147483647 THEN 0 ELSE DecimalValue(s)

\* JsonApiJob::finished(), lines 846-860: the status code of the envelope.
ocsStatusCode(jsonStr) ==
    IF contains(jsonStr, <<"<", "?", "x", "m", "l", " ", "v", "e", "r", "s", "i", "o", "n", "=", "\"", "1", ".", "0", "\"", "?", ">">>)
    THEN IF regexCap(jsonStr, <<"<", "s", "t", "a", "t", "u", "s", "c", "o", "d", "e", ">">>, <<"<", "/", "s", "t", "a", "t", "u", "s", "c", "o", "d", "e", ">">>).matched
         THEN toInt(regexCap(jsonStr, <<"<", "s", "t", "a", "t", "u", "s", "c", "o", "d", "e", ">">>, <<"<", "/", "s", "t", "a", "t", "u", "s", "c", "o", "d", "e", ">">>).cap)
         ELSE 0
    ELSE IF regexCap(jsonStr, <<"\"", "s", "t", "a", "t", "u", "s", "c", "o", "d", "e", "\"", ":">>, <<",">>).matched
         THEN toInt(regexCap(jsonStr, <<"\"", "s", "t", "a", "t", "u", "s", "c", "o", "d", "e", "\"", ":">>, <<",">>).cap)
         ELSE 0

\* The bodies of a reply to an OCS call: the text, what it is as JSON, and
\* the status code of its envelope ("statuscode":n, or <statuscode>n</statuscode>
\* after an XML declaration), 0 without one.
JsonBodies ==
    { [text |-> <<"{", "\"", "o", "c", "s", "\"", ":", "{", "\"", "s", "t", "a", "t", "u", "s", "c", "o", "d", "e", "\"", ":", "1", "0", "0", ",", "\"", "d", "\"", ":", "1", "}", "}">>,
       syntax |-> "object", statuscode |-> 100],
      [text |-> <<"{", "\"", "o", "c", "s", "\"", ":", "{", "\"", "s", "t", "a", "t", "u", "s", "c", "o", "d", "e", "\"", ":", "1", "0", "0", "}", "}">>,
       syntax |-> "object", statuscode |-> 0],
      [text |-> <<"{", "\"", "d", "\"", ":", "1", "}">>,
       syntax |-> "object", statuscode |-> 0],
      [text |-> <<"[", "1", "]">>,
       syntax |-> "array", statuscode |-> 0],
      [text |-> <<"{", "\"", "s", "t", "a", "t", "u", "s", "c", "o", "d", "e", "\"", ":", "4", "0", "4", ",">>,
       syntax |-> "invalid", statuscode |-> 404],
      [text |-> <<"<", "?", "x", "m", "l", " ", "v", "e", "r", "s", "i", "o", "n", "=", "\"", "1", ".", "0", "\"", "?", ">", "<", "o", "c", "s", ">", "<", "s", "t", "a", "t", "u", "s", "c", "o", "d", "e", ">", "9", "9", "7", "<", "/", "s", "t", "a", "t", "u", "s", "c", "o", "d", "e", ">", "<", "/", "o", "c", "s", ">">>,
       syntax |-> "invalid", statuscode |-> 997],
      [text |-> <<"<", "?", "x", "m", "l", " ", "v", "e", "r", "s", "i", "o", "n", "=", "\"", "1", ".", "0", "\"", "?", ">", "<", "o", "c", "s", "/", ">">>,
       syntax |-> "invalid", statuscode |-> 0],
      [text |-> <<>>,
       syntax |-> "invalid", statuscode |-> 0] }

JsonDocument(body) == fromJson([size |-> Len(body.text), syntax |-> body.syntax, keys |-> {}])

\* Mutant of JsonApiJob_finished: a body that is no JSON document is dropped.
JsonApiJob_finished_DropInvalid(rep) ==
    IF rep.error # "NoError"
    THEN <<JobSignal("jsonReceived", [json |-> fromJson([size |-> 0, syntax |-> "invalid",
                                                          keys |-> {}]),
                                      statusCode |-> 0])>>
    ELSE IF JsonDocument(rep.body).isNull THEN <<>>
    ELSE <<JobSignal("jsonReceived", [json |-> JsonDocument(rep.body),
                                      statusCode |-> ocsStatusCode(rep.body.text)])>>

JsonApiJob_finished(rep) ==
    IF rep.error # "NoError"
    THEN <<JobSignal("jsonReceived", [json |-> fromJson([size |-> 0, syntax |-> "invalid",
                                                          keys |-> {}]),
                                      statusCode |-> 0])>>
    ELSE <<JobSignal("jsonReceived", [json |-> JsonDocument(rep.body),
                                      statusCode |-> ocsStatusCode(rep.body.text)])>>

JsonApiJobStart ==
    JobStart("JsonApiJob",
             SentRequest("GET",
                         [base |-> "url", path |-> job.path,
                          query |-> job._additionalParams \cup {<<"format", "json">>}],
                         {<<"OCS-APIREQUEST", "true">>}, ""))

JsonApiJobFinished ==
    /\ slotFinished(job) /\ job.kind = "JsonApiJob"
    /\ \E o \in HttpOutcomes, b \in JsonBodies :
          JobFinished(JobReply(o, <<>>, b), JsonApiJob_finished(JobReply(o, <<>>, b)))
    /\ UNCHANGED parseVars

(***************************************************************************)
(* DetermineAuthTypeJob and its SimpleNetworkJob                           *)
(***************************************************************************)
UpperCase == <<"A", "B", "C", "D", "E", "F", "G", "H", "I", "J", "K", "L", "M", "N", "O", "P", "Q", "R", "S", "T", "U", "V", "W", "X", "Y", "Z">>

LowerCase == <<"a", "b", "c", "d", "e", "f", "g", "h", "i", "j", "k", "l", "m", "n", "o", "p", "q", "r", "s", "t", "u", "v", "w", "x", "y", "z">>

\* QByteArray::toLower()
toLower(s) ==
    [i \in 1..Len(s) |->
        IF \E k \in 1..Len(UpperCase) : UpperCase[k] = s[i]
        THEN LowerCase[CHOOSE k \in 1..Len(UpperCase) : UpperCase[k] = s[i]]
        ELSE s[i]]

\* The WWW-Authenticate headers a server answers with, and whether the
\* header names the scheme Bearer.
AuthHeaders ==
    { [raw |-> <<"B", "e", "a", "r", "e", "r", " ", "r", "e", "a", "l", "m", "=", "\"", "x", "\"">>, bearer |-> TRUE],
      [raw |-> <<"b", "e", "a", "r", "e", "r", " ", "r", "e", "a", "l", "m", "=", "\"", "x", "\"">>, bearer |-> TRUE],
      [raw |-> <<"B", "E", "A", "R", "E", "R", " ", "r", "e", "a", "l", "m", "=", "\"", "x", "\"">>, bearer |-> TRUE],
      [raw |-> <<"B", "a", "s", "i", "c", " ", "r", "e", "a", "l", "m", "=", "\"", "x", "\"", ",", " ", "B", "e", "a", "r", "e", "r", " ", "r", "e", "a", "l", "m", "=", "\"", "y", "\"">>, bearer |-> TRUE],
      [raw |-> <<"B", "e", "a", "r", "e", "r">>, bearer |-> TRUE],
      [raw |-> <<"B", "a", "s", "i", "c", " ", "r", "e", "a", "l", "m", "=", "\"", "x", "\"">>, bearer |-> FALSE],
      [raw |-> <<"B", "a", "s", "i", "c", " ", "r", "e", "a", "l", "m", "=", "\"", "b", "e", "a", "r", "e", "r", "s", "\"">>, bearer |-> FALSE],
      [raw |-> <<>>, bearer |-> FALSE] }

\* The slot of finishedSignal, lines 895-901: the auth type for the header.
authTypeOf(header) ==
    IF contains(toLower(header), <<"b", "e", "a", "r", "e", "r", " ">>) THEN "OAuth" ELSE "Basic"

\* The SimpleNetworkJob of the probe, seen as a job of its own.
PropfindOf(j) == [j EXCEPT !.state = j.propfind]

\* DetermineAuthTypeJob::start(): Account::sendRequest creates the
\* SimpleNetworkJob and sends the request; then the timeout and
\* ignoreCredentialFailure are set on it.
DetermineAuthTypeJobStart ==
    /\ job.kind = "DetermineAuthTypeJob" /\ job.state = "created"
    /\ attempts' = <<[request |-> SentRequest("PROPFIND", [base |-> "davUrl", path |-> <<>>],
                                              {<<"DontAddCredentialsAttribute", "true">>,
                                               <<"AuthenticationReuseAttribute", "Manual">>},
                                              ""),
                      ignoreCredentialFailure |-> job.ignoreCredentialFailure,
                      reply |-> NoReply]>>
    /\ job' = [job EXCEPT !.state = "waiting", !.propfind = "sent", !.reply = "running",
                          !.timeoutConfigured = TRUE, !.timeout = 30 * 1000,
                          !.timer = "armed", !.ignoreCredentialFailure = TRUE]
    /\ UNCHANGED <<account, signals, parseVars>>

\* Mutant of ProbeResult: without a challenge no auth type is reported.
ProbeResult_NoChallenge(rep) ==
    /\ job' = [job EXCEPT !.state = "deleteLater", !.propfind = "finished",
                          !.reply = "finished", !.timer = "stopped"]
    /\ signals' = signals \o <<JobSignal("finishedSignal", rep.httpStatus)>>
                          \o (IF rep.header = <<>> THEN <<>>
                              ELSE <<JobSignal("authType", authTypeOf(rep.header))>>)
    /\ attempts' = [attempts EXCEPT ![1].reply = rep]
    /\ account' = handleInvalidCredentials(job, rep, account)
    /\ UNCHANGED parseVars

\* SimpleNetworkJob::finished() emits finishedSignal; the slot connected in
\* DetermineAuthTypeJob::start() emits authType and calls deleteLater().
ProbeResult(rep) ==
    /\ job' = [job EXCEPT !.state = "deleteLater", !.propfind = "finished",
                          !.reply = "finished", !.timer = "stopped"]
    /\ signals' = signals \o <<JobSignal("finishedSignal", rep.httpStatus),
                               JobSignal("authType", authTypeOf(rep.header))>>
    /\ attempts' = [attempts EXCEPT ![1].reply = rep]
    /\ account' = handleInvalidCredentials(job, rep, account)
    /\ UNCHANGED parseVars

\* The replies to the probe: a 401 or 403 with a challenge, or any other end
\* of the request, without one.
ProbeReplies ==
    { [error |-> o.error, httpStatus |-> o.httpStatus, header |-> h.raw, bearer |-> h.bearer] :
        o \in {x \in HttpOutcomes : credentialFailure(x)}, h \in AuthHeaders }
    \cup { [error |-> o.error, httpStatus |-> o.httpStatus, header |-> <<>>, bearer |-> FALSE] :
             o \in {x \in HttpOutcomes : ~credentialFailure(x)} }

ProbeReplyFinished ==
    /\ job.kind = "DetermineAuthTypeJob" /\ slotFinished(PropfindOf(job))
    /\ \E rep \in ProbeReplies : ProbeResult(rep)

\* The timer of the SimpleNetworkJob expires: the request is given up and the
\* job completes without a reply from the server.
ProbeTimedOut ==
    /\ job.kind = "DetermineAuthTypeJob" /\ slotFinished(PropfindOf(job))
    /\ job.timer = "armed"
    /\ ProbeResult([error |-> "OperationCanceledError", httpStatus |-> 0, header |-> <<>>,
                    bearer |-> FALSE])

(***************************************************************************)
(* fetchPrivateLinkUrl                                                     *)
(***************************************************************************)
\* The bodies of a reply to the PROPFIND of fetchPrivateLinkUrl, with the
\* private link the server gives in them.
PrivateLinkBodies ==
    { [text |-> <<"<", "d", ":", "m", "u", "l", "t", "i", "s", "t", "a", "t", "u", "s", " ", "x", "m", "l", "n", "s", ":", "d", "=", "\"", "D", "A", "V", ":", "\"", " ", "x", "m", "l", "n", "s", ":", "o", "c", "=", "\"", "h", "t", "t", "p", ":", "/", "/", "o", "w", "n", "c", "l", "o", "u", "d", ".", "o", "r", "g", "/", "n", "s", "\"", ">", "<", "d", ":", "r", "e", "s", "p", "o", "n", "s", "e", ">", "<", "d", ":", "h", "r", "e", "f", ">", "/", "a", "<", "/", "d", ":", "h", "r", "e", "f", ">", "<", "d", ":", "p", "r", "o", "p", "s", "t", "a", "t", ">", "<", "d", ":", "p", "r", "o", "p", ">", "<", "o", "c", ":", "f", "i", "l", "e", "i", "d", ">", "7", "<", "/", "o", "c", ":", "f", "i", "l", "e", "i", "d", ">", "<", "o", "c", ":", "p", "r", "i", "v", "a", "t", "e", "l", "i", "n", "k", ">", "l", "7", "<", "/", "o", "c", ":", "p", "r", "i", "v", "a", "t", "e", "l", "i", "n", "k", ">", "<", "/", "d", ":", "p", "r", "o", "p", ">", "<", "d", ":", "s", "t", "a", "t", "u", "s", ">", "H", "T", "T", "P", "/", "1", ".", "1", " ", "2", "0", "0", " ", "O", "K", "<", "/", "d", ":", "s", "t", "a", "t", "u", "s", ">", "<", "/", "d", ":", "p", "r", "o", "p", "s", "t", "a", "t", ">", "<", "/", "d", ":", "r", "e", "s", "p", "o", "n", "s", "e", ">", "<", "/", "d", ":", "m", "u", "l", "t", "i", "s", "t", "a", "t", "u", "s", ">">>,
       privatelink |-> <<"l", "7">>],
      [text |-> <<"<", "d", ":", "m", "u", "l", "t", "i", "s", "t", "a", "t", "u", "s", " ", "x", "m", "l", "n", "s", ":", "d", "=", "\"", "D", "A", "V", ":", "\"", " ", "x", "m", "l", "n", "s", ":", "o", "c", "=", "\"", "h", "t", "t", "p", ":", "/", "/", "o", "w", "n", "c", "l", "o", "u", "d", ".", "o", "r", "g", "/", "n", "s", "\"", ">", "<", "d", ":", "r", "e", "s", "p", "o", "n", "s", "e", ">", "<", "d", ":", "h", "r", "e", "f", ">", "/", "a", "<", "/", "d", ":", "h", "r", "e", "f", ">", "<", "d", ":", "p", "r", "o", "p", "s", "t", "a", "t", ">", "<", "d", ":", "p", "r", "o", "p", ">", "<", "o", "c", ":", "f", "i", "l", "e", "i", "d", ">", "7", "<", "/", "o", "c", ":", "f", "i", "l", "e", "i", "d", ">", "<", "o", "c", ":", "p", "r", "i", "v", "a", "t", "e", "l", "i", "n", "k", "/", ">", "<", "/", "d", ":", "p", "r", "o", "p", ">", "<", "d", ":", "s", "t", "a", "t", "u", "s", ">", "H", "T", "T", "P", "/", "1", ".", "1", " ", "2", "0", "0", " ", "O", "K", "<", "/", "d", ":", "s", "t", "a", "t", "u", "s", ">", "<", "/", "d", ":", "p", "r", "o", "p", "s", "t", "a", "t", ">", "<", "/", "d", ":", "r", "e", "s", "p", "o", "n", "s", "e", ">", "<", "/", "d", ":", "m", "u", "l", "t", "i", "s", "t", "a", "t", "u", "s", ">">>,
       privatelink |-> <<>>],
      [text |-> <<"<", "d", ":", "m", "u", "l", "t", "i", "s", "t", "a", "t", "u", "s", " ", "x", "m", "l", "n", "s", ":", "d", "=", "\"", "D", "A", "V", ":", "\"", " ", "x", "m", "l", "n", "s", ":", "o", "c", "=", "\"", "h", "t", "t", "p", ":", "/", "/", "o", "w", "n", "c", "l", "o", "u", "d", ".", "o", "r", "g", "/", "n", "s", "\"", ">", "<", "d", ":", "r", "e", "s", "p", "o", "n", "s", "e", ">", "<", "d", ":", "h", "r", "e", "f", ">", "/", "a", "<", "/", "d", ":", "h", "r", "e", "f", ">", "<", "d", ":", "p", "r", "o", "p", "s", "t", "a", "t", ">", "<", "d", ":", "p", "r", "o", "p", ">", "<", "o", "c", ":", "f", "i", "l", "e", "i", "d", ">", "7", "<", "/", "o", "c", ":", "f", "i", "l", "e", "i", "d", ">", "<", "/", "d", ":", "p", "r", "o", "p", ">", "<", "d", ":", "s", "t", "a", "t", "u", "s", ">", "H", "T", "T", "P", "/", "1", ".", "1", " ", "2", "0", "0", " ", "O", "K", "<", "/", "d", ":", "s", "t", "a", "t", "u", "s", ">", "<", "/", "d", ":", "p", "r", "o", "p", "s", "t", "a", "t", ">", "<", "/", "d", ":", "r", "e", "s", "p", "o", "n", "s", "e", ">", "<", "/", "d", ":", "m", "u", "l", "t", "i", "s", "t", "a", "t", "u", "s", ">">>,
       privatelink |-> <<>>],
      [text |-> <<"<", "d", ":", "m", "u", "l", "t", "i", "s", "t", "a", "t", "u", "s", " ", "x", "m", "l", "n", "s", ":", "d", "=", "\"", "D", "A", "V", ":", "\"", " ", "x", "m", "l", "n", "s", ":", "o", "c", "=", "\"", "h", "t", "t", "p", ":", "/", "/", "o", "w", "n", "c", "l", "o", "u", "d", ".", "o", "r", "g", "/", "n", "s", "\"", ">", "<", "d", ":", "r", "e", "s", "p", "o", "n", "s", "e", ">", "<", "d", ":", "h", "r", "e", "f", ">", "/", "a", "<", "/", "d", ":", "h", "r", "e", "f", ">", "<", "d", ":", "p", "r", "o", "p", "s", "t", "a", "t", ">", "<", "d", ":", "p", "r", "o", "p", ">", "<", "o", "c", ":", "p", "r", "i", "v", "a", "t", "e", "l", "i", "n", "k", ">", "l", "7", "<", "/", "o", "c", ":", "p", "r", "i", "v", "a", "t", "e", "l", "i", "n", "k", ">">>,
       privatelink |-> <<>>] }

PrivateLinkProperties ==
    <<<<"h", "t", "t", "p", ":", "/", "/", "o", "w", "n", "c", "l", "o", "u", "d", ".", "o", "r", "g", "/", "n", "s", ":", "f", "i", "l", "e", "i", "d">>,
      <<"h", "t", "t", "p", ":", "/", "/", "o", "w", "n", "c", "l", "o", "u", "d", ".", "o", "r", "g", "/", "n", "s", ":", "p", "r", "i", "v", "a", "t", "e", "l", "i", "n", "k">>>>

\* QVariantMap::operator[] const and toString(): empty for a missing key.
valueOf(result, key) == IF key \in DOMAIN result THEN result[key] ELSE <<>>

\* Mutant of privateLinkSlot: the function is called with an empty URL too.
privateLinkSlot_Always(sigs) ==
    IF sigs # <<>> /\ sigs[1].sig = "result"
    THEN sigs \o <<JobSignal("targetFun", valueOf(sigs[1].arg, <<"p", "r", "i", "v", "a", "t", "e", "l", "i", "n", "k">>))>>
    ELSE sigs

\* The slot connected to PropfindJob::result, lines 938-944: it runs while
\* result is emitted and calls targetFun with a private link that is not empty.
privateLinkSlot(sigs) ==
    IF sigs # <<>> /\ sigs[1].sig = "result"
          /\ valueOf(sigs[1].arg, <<"p", "r", "i", "v", "a", "t", "e", "l", "i", "n", "k">>) # <<>>
    THEN sigs \o <<JobSignal("targetFun", valueOf(sigs[1].arg, <<"p", "r", "i", "v", "a", "t", "e", "l", "i", "n", "k">>))>>
    ELSE sigs

\* fetchPrivateLinkUrl(): the PropfindJob is created, configured and started.
FetchPrivateLinkUrl ==
    /\ job.kind = "fetchPrivateLinkUrl" /\ job.state = "created"
    /\ job' = AbstractNetworkJob_start(
                  [job EXCEPT !._properties = PrivateLinkProperties,
                              !.timeoutConfigured = TRUE, !.timeout = 10 * 1000,
                              !.reply = "running"])
    /\ attempts' = <<[request |-> SentRequest("PROPFIND", makeDavUrl(job.path),
                                              {<<"Depth", "0">>, <<"priority", "HighPriority">>},
                                              PropfindXml(PrivateLinkProperties)),
                      reply |-> NoReply]>>
    /\ UNCHANGED <<account, signals, parseVars>>

PrivateLinkReplies ==
    { [error |-> o.error, httpStatus |-> o.httpStatus, contentType |-> ContentTypeXml,
       body |-> xmlTokens(b.text, <<>>), privatelink |-> b.privatelink] :
         o \in HttpOutcomes, b \in PrivateLinkBodies }

\* The PropfindJob of fetchPrivateLinkUrl handles its reply.
PrivateLinkFinished ==
    /\ job.kind = "fetchPrivateLinkUrl" /\ slotFinished(job)
    /\ \E rep \in PrivateLinkReplies :
          JobFinished(rep, privateLinkSlot(PropfindJob_finished(rep)))
    /\ UNCHANGED parseVars

\* The timer of the PropfindJob expires: the request is given up and the job
\* completes without a reply from the server.
PrivateLinkTimedOut ==
    /\ job.kind = "fetchPrivateLinkUrl" /\ slotFinished(job) /\ job.timer = "armed"
    /\ JobFinished([error |-> "OperationCanceledError", httpStatus |-> 0,
                    contentType |-> <<>>, body |-> <<InvalidTok>>, privatelink |-> <<>>],
                   privateLinkSlot(PropfindJob_finished(
                       [error |-> "OperationCanceledError", httpStatus |-> 0,
                        contentType |-> <<>>, body |-> <<InvalidTok>>])))
    /\ UNCHANGED parseVars

(***************************************************************************)
(* The jobs a caller creates                                               *)
(***************************************************************************)
JobPath == <<"/", "a">>

NoUrl == [valid |-> FALSE, base |-> "", path |-> <<>>]

CallerUrl == [valid |-> TRUE, base |-> "", path |-> JobPath]

\* AvatarJob::AvatarJob(): the URL depends on the version of the server.
AvatarUrl(serverVersion) ==
    IF serverVersion >= 10
    THEN [base |-> "url", path |-> <<"r", "e", "m", "o", "t", "e", ".", "p", "h", "p", "/", "d", "a", "v", "/", "a", "v", "a", "t", "a", "r", "s", "/", "u", "/", "6", "4", ".", "p", "n", "g">>]
    ELSE [base |-> "url", path |-> <<"i", "n", "d", "e", "x", ".", "p", "h", "p", "/", "a", "v", "a", "t", "a", "r", "/", "u", "/", "6", "4">>]

\* The properties a caller asks for or sets.
RequestedProperties ==
    { <<>>,
      <<<<"g", "e", "t", "e", "t", "a", "g">>, <<"h", "t", "t", "p", ":", "/", "/", "o", "w", "n", "c", "l", "o", "u", "d", ".", "o", "r", "g", "/", "n", "s", ":", "s", "i", "z", "e">>, <<"n", ":", "p">>>> }

NewJobs ==
    { NewJob(k, JobPath) : k \in {"RequestEtagJob", "EntityExistsJob"} }
    \cup { NewJob("MkColJob", p) @@ [_url |-> u, _extraHeaders |-> e] :
             p \in {JobPath}, u \in {NoUrl, CallerUrl},
             e \in {{}, {<<"X-Extra", "1">>, <<"Content-Length", "5">>}} }
    \cup { NewJob("LsColJob", p) @@ [_url |-> u, _properties |-> ps] :
             p \in {JobPath}, u \in {NoUrl, CallerUrl}, ps \in RequestedProperties }
    \cup { NewJob("PropfindJob", JobPath) @@ [_properties |-> ps] : ps \in RequestedProperties }
    \cup { NewJob("ProppatchJob", JobPath) @@ [_properties |-> ps] :
             ps \in {<<>>, << <<<<"n", ":", "f", "a", "v", "o", "r", "i", "t", "e">>, <<"1">>>> >>} }
    \cup { NewJob("AvatarJob", <<>>) @@ [_avatarUrl |-> AvatarUrl(v)] : v \in {9, 10} }
    \cup { NewJob("JsonApiJob", JobPath) @@ [_additionalParams |-> q] :
             q \in {{}, {<<"x", "1">>}} }
    \cup { NewJob("DetermineAuthTypeJob", <<>>) @@ [propfind |-> "none", timeout |-> 0] }
    \cup { NewJob("fetchPrivateLinkUrl", JobPath) @@ [_properties |-> <<>>, timeout |-> 0] }

JobsInit ==
    /\ job \in NewJobs
    /\ account = AccountIdle
    /\ signals = <<>>
    /\ attempts = <<>>
    /\ ParseIdle

\* The bodies of a reply to a PROPFIND for properties: a multistatus, a
\* document cut short, and no document.
PropfindReplies ==
    { JobReply(o, ContentTypeXml, xmlTokens(b.text, <<>>)) :
        o \in HttpOutcomes, b \in PrivateLinkBodies }
    \cup { JobReply(o, ContentTypeXml, <<InvalidTok>>) : o \in HttpOutcomes }

PropfindJobFinished ==
    /\ slotFinished(job) /\ job.kind = "PropfindJob"
    /\ \E rep \in PropfindReplies : JobFinished(rep, PropfindJob_finished(rep))
    /\ UNCHANGED parseVars

JobsNext ==
    \/ RequestEtagJobStart
    \/ RequestEtagJobFinished
    \/ MkColJobStart
    \/ MkColJobFinished
    \/ LsColJobStart
    \/ LsColJobFinished
    \/ PropfindJobStart
    \/ PropfindJobFinished
    \/ ProppatchJobStart
    \/ ProppatchJobFinished
    \/ EntityExistsJobStart
    \/ EntityExistsJobFinished
    \/ AvatarJobStart
    \/ AvatarJobFinished
    \/ JsonApiJobStart
    \/ JsonApiJobFinished
    \/ DetermineAuthTypeJobStart
    \/ ProbeReplyFinished
    \/ ProbeTimedOut
    \/ FetchPrivateLinkUrl
    \/ PrivateLinkFinished
    \/ PrivateLinkTimedOut
    \/ DeferredDelete

SpecJobs == JobsInit /\ [][JobsNext]_vars

\* The transport ends every request, and a timer that is armed expires unless
\* the reply comes first.
FairSpecJobs ==
    /\ SpecJobs
    /\ WF_vars(ProbeReplyFinished)
    /\ WF_vars(ProbeTimedOut)
    /\ WF_vars(DeferredDelete)

(***************************************************************************)
(* A property map written by ProppatchJob::start and read back by the      *)
(* reader of PropfindJob::finished                                         *)
(***************************************************************************)
MaxProperties == 2

\* The keys of a property map, in the order of a QMap<QByteArray, ...>, each
\* with the name its element has in the document.
KeyTable ==
    << [key |-> <<"a">>, local |-> <<"a">>],
       [key |-> <<"b">>, local |-> <<"b">>],
       [key |-> <<"h", ":", "/", "o", ":", "b">>, local |-> <<"b">>],
       [key |-> <<"n", ":", "a">>, local |-> <<"a">>],
       [key |-> <<"n", ":", "c">>, local |-> <<"c">>] >>

PropertyValues == { <<>>, <<"1">>, <<"v", " ", "w">>, <<" ">> }

\* The n-th smallest member of the set I of numbers.
Nth(I, n) == CHOOSE i \in I : Cardinality({j \in I : j < i}) = n - 1

PropertyMaps ==
    { [n \in 1..Cardinality(I) |-> <<KeyTable[Nth(I, n)].key, v[Nth(I, n)]>>] :
        I \in {J \in SUBSET (1..Len(KeyTable)) : Cardinality(J) <= MaxProperties},
        v \in [1..Len(KeyTable) -> PropertyValues] }

RoundTripInit ==
    /\ job \in { NewJob("ProppatchJob", JobPath) @@ [_properties |-> ps] : ps \in PropertyMaps }
    /\ account = AccountIdle
    /\ signals = <<>>
    /\ attempts = <<>>
    /\ ParseIdle

\* The body that was sent is read as PropfindJob::finished reads a 207 reply.
ReadBack ==
    /\ attempts # <<>> /\ signals = <<>>
    /\ signals' = PropfindJob_finished([httpStatus |-> 207,
                                        body |-> xmlTokens(attempts[1].request.body, <<>>)])
    /\ UNCHANGED <<account, job, attempts, parseVars>>

RoundTripNext == ProppatchJobStart \/ ReadBack

SpecRoundTrip == RoundTripInit /\ [][RoundTripNext]_vars

(***************************************************************************)
(* The jobs that ignore a credential failure, and one that does not        *)
(***************************************************************************)
CredentialsInit ==
    \/ CheckInit
    \/ /\ JobsInit
       /\ job.kind \in {"DetermineAuthTypeJob", "EntityExistsJob"}

CredentialsNext ==
    \/ Start
    \/ ReplyFinished
    \/ OnTimedOut
    \/ LateReply
    \/ MetaDataChangedSlot
    \/ EncryptedSlot
    \/ DeferredDelete
    \/ DetermineAuthTypeJobStart
    \/ ProbeReplyFinished
    \/ ProbeTimedOut
    \/ EntityExistsJobStart
    \/ EntityExistsJobFinished

SpecCredentials == CredentialsInit /\ [][CredentialsNext]_vars

(***************************************************************************)
(* Several CheckServerJobs of one account: the merges of their slots and   *)
(* completions into the TLS fields of the account interleave on the one    *)
(* thread.  attempts logs what each merge observed.                        *)
(***************************************************************************)
MaxJobs == 2

MaxMerges == 2

\* What a reply can carry: each of the three fields on its own, or none.
SslObservations ==
    [peerCertificateChain : {<<>>, <<"c1">>, <<"c2">>},
     sessionCipher : {"", "aes", "chacha"},
     sessionTicket : {<<>>, <<"t1">>}]

Observation(via, j, config) == [via |-> via, job |-> j, config |-> config]

\* encryptedSlot() of job j
ConcurrentEncryptedSlot ==
    /\ Len(attempts) < MaxMerges
    /\ \E j \in job.running, config \in SslObservations :
          /\ account' = mergeSslConfigurationForSslButton(config, account)
          /\ attempts' = Append(attempts, Observation("encryptedSlot", j, config))
    /\ UNCHANGED <<job, signals, parseVars>>

\* metaDataChangedSlot() of job j
ConcurrentMetaDataChangedSlot ==
    /\ Len(attempts) < MaxMerges
    /\ \E j \in job.running, config \in SslObservations :
          /\ account' = mergeSslConfigurationForSslButton(
                            config, [account EXCEPT !.sslConfiguration = config])
          /\ attempts' = Append(attempts, Observation("metaDataChangedSlot", j, config))
    /\ UNCHANGED <<job, signals, parseVars>>

\* finished() of job j, up to its merge; the job is not in flight after it.
ConcurrentFinished ==
    /\ Len(attempts) < MaxMerges
    /\ \E j \in job.running, config \in SslObservations :
          /\ account' = mergeSslConfigurationForSslButton(config, account)
          /\ attempts' = Append(attempts, Observation("finished", j, config))
          /\ job' = [job EXCEPT !.running = @ \ {j}]
    /\ UNCHANGED <<signals, parseVars>>

SslMergeInit ==
    /\ account = [url |-> Url("https", "h", <<>>),
                  sslConfiguration |-> [peerCertificateChain |-> <<>>, sessionCipher |-> "",
                                        sessionTicket |-> <<>>],
                  _peerCertificateChain |-> <<>>, _sessionCipher |-> "",
                  _sessionTicket |-> <<>>, credentials |-> "valid"]
    /\ job = [kind |-> "CheckServerJobs", running |-> 1..MaxJobs]
    /\ signals = <<>>
    /\ attempts = <<>>
    /\ parser = ParserLocals
    /\ received = <<>>
    /\ parsePc = "idle"
    /\ parseResult = "none"
    /\ open = <<>>
    /\ rootClosed = FALSE
    /\ docPs = NoPropstat
    /\ docCur = NoResponse
    /\ docPrev = NoResponse
    /\ docCount = 0
    /\ docSimple = TRUE
    /\ docBadHref = FALSE
    /\ docRoot = <<>>
    /\ docEnd = "none"

SslMergeNext ==
    \/ ConcurrentEncryptedSlot
    \/ ConcurrentMetaDataChangedSlot
    \/ ConcurrentFinished

SpecSslMerge == SslMergeInit /\ [][SslMergeNext]_vars

(***************************************************************************)
(* Properties of LsColXMLParser::parse, checked under SpecParse            *)
(***************************************************************************)
IsIterated(e) == e.sig = "directoryListingIterated"

\* k times the name of the incremental signal.
IteratedNames(k) == [i \in 1..k |-> "directoryListingIterated"]

\* The last step emitted exactly one entry, for the response that just ended.
OneEntry == Len(parser.emitted) = 1 /\ IsIterated(parser.emitted[1])

\* C1: the mapping published with an emitted entry holds only properties read
\* in a propstat of the same response whose status starts with HTTP/1.1 200;
\* a property of a propstat with another status (or none) is never published.
C1_PropstatGating ==
    \A i \in 1..Len(parser.emitted) :
        IsIterated(parser.emitted[i]) =>
            /\ docPrev.ended
            /\ Pairs(parser.emitted[i].props) \subseteq docPrev.all200

\* C1 witness: an entry with properties is emitted for a response that also
\* reported a property outside its 200 propstats.
C1_Witness ==
    /\ docPrev.ended /\ OneEntry
    /\ docPrev.all200 # {}
    /\ Pairs(parser.emitted[1].props) = docPrev.all200
    /\ \E name \in docPrev.names : \A q \in docPrev.all200 : q[1] # name

\* C2: the step that reads a href outside the expected path makes parse return
\* false; it emits nothing, neither the folder list nor the success signal was
\* emitted, and the entries of the responses read before stay delivered.
C2_HrefValidation ==
    docBadHref =>
        /\ parsePc = "returned" /\ parseResult = "false"
        /\ parser.emitted = <<>>
        /\ received = IteratedNames(docCount)

\* C2 witness: a bad href is read after a response was read and emitted.
C2_Witness == docBadHref /\ docCount >= 1 /\ Len(received) >= 1

\* C3: while every response read has its href, exactly one propstat and that
\* one with status 200, one entry was emitted per response, each at the end of
\* its response, with the href and exactly the properties of that propstat.
C3_OneEntryPerResponse ==
    docSimple =>
        /\ SelectSeq(received, LAMBDA n : n = "directoryListingIterated") = IteratedNames(docCount)
        /\ docPrev.ended =>
              /\ OneEntry
              /\ parser.emitted[1].href = docPrev.href
              /\ Pairs(parser.emitted[1].props) = docPrev.last200

\* C3 witness: the second of two such responses, with properties, has ended.
C3_Witness ==
    /\ docSimple /\ docCount = 2 /\ docPrev.ended
    /\ docPrev.last200 # {} /\ docPrev.follows200
    /\ Len(received) = 2

\* C4: a response whose only propstat has no 200 status is emitted all the
\* same, with an empty mapping, also right after a response with 200 properties.
C4_Non200OnlyEmptyEntry ==
    (docPrev.ended /\ docPrev.n = 1 /\ docPrev.n200 = 0) =>
        OneEntry /\ parser.emitted[1].props = EmptyMap

\* C4 witness: such a response, with a property in its propstat, ends right
\* after a response that published properties.
C4_Witness ==
    /\ docPrev.ended /\ docPrev.n = 1 /\ docPrev.n200 = 0
    /\ docPrev.names # {} /\ docPrev.follows200
    /\ OneEntry

\* C5: for a response with several propstats of which one at least has status
\* 200, the mapping published is exactly the property set of the last propstat
\* with status 200: no merge with an earlier 200 block, and a block with another
\* status before or after it adds nothing and erases nothing.
C5_LastOkPropstatWins ==
    (docPrev.ended /\ docPrev.n >= 2 /\ docPrev.n200 >= 1) =>
        OneEntry /\ Pairs(parser.emitted[1].props) = docPrev.last200

\* C5 witness: two 200 blocks with different properties in one response.
C5_Witness ==
    /\ docPrev.ended /\ docPrev.n200 = 2 /\ OneEntry
    /\ docPrev.last200 # {} /\ docPrev.all200 # docPrev.last200

\* C6: parse ends with the folder list and then the success signal, each once
\* and after all entries, exactly when the document ended without a syntax
\* error and its root was a DAV: multistatus; in every other case it returns
\* false with neither of the two, the entries emitted before standing.
C6_EndOfDocument ==
    /\ parsePc = "parsing" => received = IteratedNames(docCount)
    /\ parsePc = "returned" =>
          IF docEnd = "complete" /\ docRoot = S_multistatus
          THEN /\ parseResult = "true"
               /\ received = IteratedNames(docCount)
                                \o <<"directoryListingSubfolders", "finishedWithoutError">>
          ELSE /\ parseResult = "false"
               /\ received = IteratedNames(docCount)

\* C6 witness: a multistatus document with a response was read to its end.
C6_Witness ==
    /\ parsePc = "returned" /\ parseResult = "true" /\ docCount >= 1
    /\ Len(received) = docCount + 2

(***************************************************************************)
(* Properties of CheckServerJob, checked under SpecCheckServer             *)
(***************************************************************************)
Results == {"instanceFound", "instanceNotFound"}

\* The signals of the given names that attempt n emitted, in order.
SignalsOf(n, names) == SelectSeq(signals, LAMBDA s : s.attempt = n /\ s.sig \in names)

Completed(n) == n \in 1..Len(attempts) /\ attempts[n].reply # NoReply

\* Attempt n ended with the restart on the subdirectory path.
Retried(n) == n < Len(attempts)

Terminal == job.state \in {"deleteLater", "deleted"}

\* C7: a reply with ContentNotFoundError restarts the job on
\* "owncloud/status.php" only if the job did not fall back before: a job
\* sends at most two requests, the second one only after a 404 on the first
\* and to the subdirectory path, a first reply with a 404 always restarts, and
\* the reply to the second request, a 404 included, ends the job with one
\* instanceFound or instanceNotFound.
C7_FallbackBounded ==
    /\ Len(attempts) <= 2
    /\ Len(attempts) >= 1 =>
          /\ attempts[1].request.url.path = attempts[1].serverUrl.path \o <<"/">> \o statusphpC
          /\ Completed(1) /\ attempts[1].reply.error = "ContentNotFoundError"
                => Len(attempts) = 2
    /\ Len(attempts) = 2 =>
          /\ attempts[1].reply.error = "ContentNotFoundError"
          /\ attempts[2].request.url.path =
                attempts[2].serverUrl.path \o <<"/">> \o owncloudDirC \o statusphpC
          /\ job._subdirFallback
          /\ Completed(2) => Terminal /\ Len(SignalsOf(2, Results)) = 1

C7_Witness ==
    /\ Len(attempts) = 2
    /\ Completed(2)
    /\ attempts[2].reply.error = "ContentNotFoundError"
    /\ Terminal
    /\ SignalsOf(2, Results) # <<>>
    /\ SignalsOf(2, Results)[1].sig = "instanceNotFound"

\* What C8 requires of a reply: HTTP status 200, a non-empty body that is a
\* JSON object, and the key "installed" in it.
SuccessConditions(rep) ==
    /\ rep.httpStatus = 200
    /\ rep.body.size > 0
    /\ rep.body.syntax = "object"
    /\ "installed" \in rep.body.keys

C9_OneTerminalOutcome ==
    /\ Len(SelectSeq(signals, LAMBDA s : s.sig \in Results \cup {"timeout"})) <= 1
    /\ Terminal => Len(SelectSeq(signals, LAMBDA s : s.sig \in Results \cup {"timeout"})) = 1
    /\ Len(attempts) = 2 => SignalsOf(1, Results \cup {"timeout"}) = <<>>
    /\ Completed(2) => Len(SignalsOf(2, Results)) = 1 /\ SignalsOf(2, {"timeout"}) = <<>>

C9_Witness ==
    /\ Len(attempts) = 2
    /\ Completed(2)
    /\ job.state = "deleted"
    /\ SignalsOf(1, Results) = <<>>
    /\ SignalsOf(2, {"instanceFound"}) # <<>>

\* The URL a reply of the given kind comes from, without the status resource,
\* for attempt n started with the server URL srv.
ExpectedTarget(kind, n, srv) ==
    CASE kind = "same" ->
            IF n = 1 THEN srv
            ELSE [srv EXCEPT !.path = @ \o <<"/", "o", "w", "n", "c", "l", "o", "u", "d">>]
      [] kind = "elsewhere" -> ElsewhereTarget
      [] kind = "relative" -> [srv EXCEPT !.path = RelativePath]

\* C10: a completed attempt emits redirectDetected, once and with the target
\* URL, exactly if the URL of the reply without the status resource is not
\* the server URL the attempt was started with; an attempt that did not
\* complete emits none; and redirectDetected comes before the
\* instanceFound or instanceNotFound of the same attempt.
C10_RedirectNotification ==
    /\ \A n \in 1..Len(attempts) :
          IF Completed(n)
          THEN IF ExpectedTarget(attempts[n].reply.kind, n, attempts[n].serverUrl)
                     # attempts[n].serverUrl
               THEN /\ Len(SignalsOf(n, {"redirectDetected"})) = 1
                    /\ SignalsOf(n, {"redirectDetected"})[1].url =
                          ExpectedTarget(attempts[n].reply.kind, n, attempts[n].serverUrl)
               ELSE SignalsOf(n, {"redirectDetected"}) = <<>>
          ELSE SignalsOf(n, {"redirectDetected"}) = <<>>
    /\ \A i, k \in 1..Len(signals) :
          /\ signals[i].sig = "redirectDetected"
          /\ signals[k].sig \in Results
          /\ signals[i].attempt = signals[k].attempt
          => i < k

C10_Witness ==
    /\ Len(attempts) = 1
    /\ Completed(1)
    /\ attempts[1].reply.kind = "elsewhere"
    /\ Len(signals) = 2
    /\ signals[1].sig = "redirectDetected"
    /\ signals[1].url = ElsewhereTarget
    /\ signals[2].sig = "instanceFound"

\* The attempt without a redirect: the reply comes from the URL requested and
\* redirectDetected is not emitted.
C10_NoRedirect ==
    /\ Len(attempts) = 1
    /\ Completed(1)
    /\ attempts[1].reply.kind = "same"
    /\ Len(signals) = 1
    /\ signals[1].sig \in Results

\* C11: once the job reported timeout, no signal follows it: a reply that
\* arrives for the job afterwards leads to no instanceFound, instanceNotFound
\* or redirectDetected, whatever the order of timer expiry and completion.
C11_LateReplyIgnored ==
    \A i \in 1..Len(signals) : signals[i].sig = "timeout" => i = Len(signals)

C11_Witness ==
    /\ signals # <<>>
    /\ signals[Len(signals)].sig = "timeout"
    /\ job.timer = "expired"
    /\ job.state = "deleteLater"
    /\ job.reply = "finished"

\* C12: when the timer of a started job has expired, the job has emitted
\* timeout exactly once, as its only terminal outcome and for the attempt then
\* running, has emitted no instanceFound or instanceNotFound, and is over.
C12_TimeoutReported ==
    job.timer = "expired" =>
        /\ Terminal
        /\ Len(SelectSeq(signals, LAMBDA s : s.sig = "timeout")) = 1
        /\ SelectSeq(signals, LAMBDA s : s.sig \in Results) = <<>>
        /\ SignalsOf(Len(attempts), {"timeout"}) # <<>>
        /\ attempts[Len(attempts)].reply = NoReply

C12_Witness ==
    /\ job.timer = "expired"
    /\ Len(attempts) = 2
    /\ signals # <<>>
    /\ signals[Len(signals)].sig = "timeout"
    /\ signals[Len(signals)].attempt = 2
    /\ job.state = "deleted"

(***************************************************************************)
(* Properties of parseEtag, checked under SpecParseEtag                    *)
(***************************************************************************)
\* C16: parseEtag returns the entity tag without the weak prefix W/, without
\* the -gzip artifact and without one pair of surrounding double quotes:
\* W/"abc-gzip", "abc" and abc all give abc, and the empty header gives the
\* empty result.
C16_EtagNormalized ==
    job.kind = "parseEtag" /\ job.state = "returned" =>
        /\ job.result = job.tag
        /\ job.header = <<>> => job.result = <<>>
        /\ job.header \in {<<"W", "/", "\"", "a", "b", "c", "-", "g", "z", "i", "p", "\"">>,
                           <<"\"", "a", "b", "c", "\"">>,
                           <<"a", "b", "c">>}
              => job.result = <<"a", "b", "c">>

C16_Witness ==
    /\ job.kind = "parseEtag" /\ job.state = "returned"
    /\ job.header = <<"W", "/", "\"", "a", "b", "c", "-", "g", "z", "i", "p", "\"">>
    /\ job.result = <<"a", "b", "c">>

(***************************************************************************)
(* Properties of the verb jobs, checked under SpecJobs                     *)
(***************************************************************************)
\* The job handled its reply.
Handled == job.state \in {"deleteLater", "deleted"}

\* The signals that tell the caller how a job of the given kind ended.
OutcomeSignals(kind) ==
    CASE kind = "RequestEtagJob" -> {"finishedWithResult"}
      [] kind = "MkColJob" -> {"finished"}
      [] kind = "LsColJob" -> {"finishedWithoutError", "finishedWithError"}
      [] kind \in {"PropfindJob", "fetchPrivateLinkUrl"} -> {"result", "finishedWithError"}
      [] kind = "ProppatchJob" -> {"success", "finishedWithError"}
      [] kind = "EntityExistsJob" -> {"exists"}
      [] kind = "AvatarJob" -> {"avatarPixmap"}
      [] kind = "JsonApiJob" -> {"jsonReceived"}
      [] OTHER -> {}

Emitted(names) == SelectSeq(signals, LAMBDA s : s.sig \in names)

\* C13: a job for the entity tag, MkCol, LsCol, Propfind, Proppatch, the
\* existence of an entity, the avatar or an OCS call has emitted none of its
\* outcome signals before it handled its reply, and exactly one of them once
\* it did, whatever the status, the content type and the body of the reply.
C13_OneOutcomePerReply ==
    OutcomeSignals(job.kind) # {} =>
        Len(Emitted(OutcomeSignals(job.kind))) = (IF Handled THEN 1 ELSE 0)

C13_Witness ==
    /\ job.kind = "LsColJob"
    /\ Handled
    /\ parseResult = "false"
    /\ Len(signals) = 2
    /\ signals[1].sig = "directoryListingIterated"
    /\ signals[2].sig = "finishedWithError"

\* C14: the probe reports OAuth if the WWW-Authenticate header of the reply
\* names the scheme Bearer, in any letter case, and Basic otherwise, also for
\* a header that is missing or empty.
C14_AuthTypeClassified ==
    job.kind = "DetermineAuthTypeJob" /\ Handled =>
        /\ Emitted({"authType"}) # <<>>
        /\ Emitted({"authType"})[1].arg =
              (IF attempts[1].reply.bearer THEN "OAuth" ELSE "Basic")

C18_LsColGate ==
    job.kind = "LsColJob" /\ Handled =>
        IF attempts[1].reply.httpStatus = 207
              /\ attempts[1].reply.contentType
                     \in {ContentTypeXml, ContentTypeXml \o <<";", " ", "q", "=", "1">>}
        THEN parsePc = "returned"
        ELSE /\ parsePc = "idle"
             /\ received = <<>>
             /\ Len(signals) = 1
             /\ signals[1].sig = "finishedWithError"

C18_Witness ==
    /\ job.kind = "LsColJob"
    /\ Handled
    /\ attempts[1].reply.httpStatus = 207
    /\ attempts[1].reply.contentType = <<"a", "p", "p", "l", "i", "c", "a", "t", "i", "o", "n",
                                         "/", "x", "m", "l">>
    /\ Len(attempts[1].reply.body) > 3
    /\ Len(signals) = 1
    /\ signals[1].sig = "finishedWithError"
    /\ parsePc = "idle"

\* C20: fetchPrivateLinkUrl calls targetFun at most once, only while the
\* PropfindJob reports its result, and only with the private link of that
\* result, which is not empty; it is not called when the link is missing or
\* empty, nor when the job ends with an error or by its timeout.
C20_PrivateLink ==
    job.kind = "fetchPrivateLinkUrl" =>
        /\ Len(Emitted({"targetFun"})) <= 1
        /\ Emitted({"targetFun"}) # <<>> =>
              /\ Handled
              /\ Len(signals) = 2
              /\ signals[1].sig = "result"
              /\ signals[2].sig = "targetFun"
              /\ signals[2].arg # <<>>
              /\ signals[2].arg = attempts[1].reply.privatelink
              /\ attempts[1].reply.httpStatus = 207
        /\ Handled /\ (Emitted({"result"}) = <<>> \/ attempts[1].reply.privatelink = <<>>)
              => Emitted({"targetFun"}) = <<>>
        /\ Handled /\ attempts[1].reply.error # "NoError" => Emitted({"targetFun"}) = <<>>

C20_Witness ==
    /\ job.kind = "fetchPrivateLinkUrl"
    /\ Handled
    /\ Len(signals) = 2
    /\ signals[2].sig = "targetFun"
    /\ signals[2].arg # <<>>

\* The private link is not handed on: the reply has none.
C20_NoLink ==
    /\ job.kind = "fetchPrivateLinkUrl"
    /\ Handled
    /\ Len(signals) = 1
    /\ signals[1].sig = "result"

(***************************************************************************)
(* The round trip of a property map, checked under SpecRoundTrip           *)
(***************************************************************************)
\* The name of the element ProppatchJob::start writes for a key.
LocalOf(key) == (CHOOSE i \in 1..Len(KeyTable) : KeyTable[i].key = key)

\* C17, as stated: the body built from a property map, read back, gives
\* exactly the key/value pairs of the map.
C17_SamePairs ==
    job.kind = "ProppatchJob" /\ signals # <<>> =>
        /\ Len(signals) = 1 /\ signals[1].sig = "result"
        /\ Pairs(signals[1].arg) =
              { <<job._properties[i][1], job._properties[i][2]>> : i \in DOMAIN job._properties }

\* C17, amended: the body built from a property map, read back, gives every
\* value under the local name of its key, the key without its namespace; of
\* several keys with one local name the last in key order is left; the pairs
\* of the map come back as they are if no key has a namespace.
C17_LocalNamePairs ==
    job.kind = "ProppatchJob" /\ signals # <<>> =>
        /\ Len(signals) = 1 /\ signals[1].sig = "result"
        /\ DOMAIN signals[1].arg =
              { KeyTable[LocalOf(job._properties[i][1])].local : i \in DOMAIN job._properties }
        /\ \A i \in DOMAIN job._properties :
              (\A k \in DOMAIN job._properties :
                  k > i => KeyTable[LocalOf(job._properties[k][1])].local
                              # KeyTable[LocalOf(job._properties[i][1])].local)
              => signals[1].arg[KeyTable[LocalOf(job._properties[i][1])].local]
                    = job._properties[i][2]
        /\ (\A i \in DOMAIN job._properties :
                KeyTable[LocalOf(job._properties[i][1])].local = job._properties[i][1])
              => Pairs(signals[1].arg) =
                    { <<job._properties[i][1], job._properties[i][2]>> :
                        i \in DOMAIN job._properties }

C17_Witness ==
    /\ job.kind = "ProppatchJob"
    /\ Len(job._properties) = 2
    /\ job._properties[1] = <<<<"a">>, <<"1">>>>
    /\ job._properties[2] = <<<<"n", ":", "c">>, <<"v", " ", "w">>>>
    /\ Len(signals) = 1 /\ signals[1].sig = "result"
    /\ Pairs(signals[1].arg) = { <<<<"a">>, <<"1">>>>, <<<<"c">>, <<"v", " ", "w">>>> }

(***************************************************************************)
(* Credential failures, checked under SpecCredentials                      *)
(***************************************************************************)
IgnoringJobs == {"CheckServerJob", "DetermineAuthTypeJob"}

\* C19, as stated: every request of the discovery job and of the probe is
\* sent by a job that has ignoreCredentialFailure set already, and no reply
\* to them makes the account ask for its credentials again.
C19_SetBeforeSend ==
    job.kind \in IgnoringJobs =>
        /\ \A i \in DOMAIN attempts : attempts[i].ignoreCredentialFailure
        /\ account.credentials = "valid"

\* C19, amended: the discovery job has ignoreCredentialFailure set when each
\* of its requests is sent, the fallback retry included; the probe has it set
\* once its start() returned, before a reply is handled; and no reply to
\* either of them makes the account ask for its credentials again.
C19_SetBeforeReply ==
    job.kind \in IgnoringJobs =>
        /\ job.kind = "CheckServerJob" =>
              /\ job.ignoreCredentialFailure
              /\ \A i \in DOMAIN attempts : attempts[i].ignoreCredentialFailure
        /\ job.state # "created" => job.ignoreCredentialFailure
        /\ account.credentials = "valid"

C19_Witness ==
    /\ job.kind = "CheckServerJob"
    /\ job.state = "deleteLater"
    /\ Len(attempts) = 2
    /\ attempts[1].reply.httpStatus = 404
    /\ attempts[2].reply.httpStatus = 401
    /\ attempts[2].ignoreCredentialFailure
    /\ account.credentials = "valid"

\* The probe got a 403 and the account did not ask for credentials.
C19_ProbeRefused ==
    /\ job.kind = "DetermineAuthTypeJob"
    /\ Handled
    /\ attempts[1].reply.httpStatus = 403
    /\ ~attempts[1].ignoreCredentialFailure
    /\ account.credentials = "valid"

\* A job that does not ignore the failure makes the account ask again.
C19_AskedAgain ==
    /\ job.kind = "EntityExistsJob"
    /\ Handled
    /\ attempts[1].reply.httpStatus = 401
    /\ account.credentials = "askedAgain"

(***************************************************************************)
(* JsonApiJob and the requests of CheckServerJob                           *)
(***************************************************************************)
\* C21: JsonApiJob::finished emits jsonReceived exactly once and nothing
\* else: after a network error with a null document and status code 0; for a
\* body that is no JSON document with a null document and the status code of
\* its envelope, 0 without one; else with the document read and that code.
C21_JsonAlwaysReported ==
    job.kind = "JsonApiJob" /\ Handled =>
        /\ Len(signals) = 1
        /\ signals[1].sig = "jsonReceived"
        /\ IF attempts[1].reply.error # "NoError"
           THEN signals[1].arg.json.isNull /\ signals[1].arg.statusCode = 0
           ELSE /\ signals[1].arg.statusCode = attempts[1].reply.body.statuscode
                /\ signals[1].arg.json.isNull
                      <=> (attempts[1].reply.body.syntax = "invalid"
                           \/ attempts[1].reply.body.text = <<>>)
                /\ signals[1].arg.json.isObject <=> attempts[1].reply.body.syntax = "object"

C21_Witness ==
    /\ job.kind = "JsonApiJob" /\ Handled
    /\ attempts[1].reply.error = "NoError"
    /\ attempts[1].reply.body.syntax = "invalid"
    /\ attempts[1].reply.body.statuscode = 404
    /\ Len(signals) = 1
    /\ signals[1].arg.json.isNull
    /\ signals[1].arg.statusCode = 404

\* C24: every request of a discovery job, the retry on the subdirectory
\* included, is a GET sent without the stored credentials, with the redirect
\* policy NoLessSafeRedirectPolicy and with the maximum number of redirects
\* the caller configured.
C24_RequestAttributes ==
    job.kind = "CheckServerJob" =>
        \A i \in DOMAIN attempts :
            /\ attempts[i].request.verb = "GET"
            /\ attempts[i].request.dontAddCredentials
            /\ attempts[i].request.redirectPolicy = "NoLessSafeRedirectPolicy"
            /\ attempts[i].request.maximumRedirectsAllowed = job._maxRedirectsAllowed

C24_Witness ==
    /\ job.kind = "CheckServerJob"
    /\ Len(attempts) = 2
    /\ job._maxRedirectsAllowed = 5
    /\ attempts[2].request.dontAddCredentials
    /\ attempts[2].request.maximumRedirectsAllowed = 5
    /\ attempts[2].request.url.path # attempts[1].request.url.path

(***************************************************************************)
(* The TLS fields of the account, checked under SpecSslMerge               *)
(***************************************************************************)
\* The observations, in their order, that carry the field.
Carrying(field, empty) == SelectSeq(attempts, LAMBDA o : o.config[field] # empty)

\* The latest value observed for the field, empty if no observation had one.
LatestObserved(field, empty) ==
    IF Carrying(field, empty) = <<>> THEN empty
    ELSE Carrying(field, empty)[Len(Carrying(field, empty))].config[field]

\* C22: after any interleaving of the merges of the jobs of one account, each
\* of the fields peer certificate chain, session cipher and session ticket
\* holds the latest non-empty value observed for it (the empty value if there
\* was none); and no step resets a field that is set to the empty value.
C22_LatestNonEmptyWins ==
    /\ [](/\ account._peerCertificateChain = LatestObserved("peerCertificateChain", <<>>)
          /\ account._sessionCipher = LatestObserved("sessionCipher", "")
          /\ account._sessionTicket = LatestObserved("sessionTicket", <<>>))
    /\ [][/\ account._peerCertificateChain # <<>> => account'._peerCertificateChain # <<>>
          /\ account._sessionCipher # "" => account'._sessionCipher # ""
          /\ account._sessionTicket # <<>> => account'._sessionTicket # <<>>]_vars

\* C22 witness: the completion of one job carried a new cipher but neither a
\* chain nor a ticket, after a slot of the other job had set all three.
C22_Witness ==
    /\ Len(attempts) = 2
    /\ attempts[1].job # attempts[2].job
    /\ attempts[2].via = "finished"
    /\ attempts[1].config = [peerCertificateChain |-> <<"c1">>, sessionCipher |-> "aes",
                             sessionTicket |-> <<"t1">>]
    /\ attempts[2].config = [peerCertificateChain |-> <<>>, sessionCipher |-> "chacha",
                             sessionTicket |-> <<>>]
    /\ account._peerCertificateChain = <<"c1">>
    /\ account._sessionCipher = "chacha"
    /\ account._sessionTicket = <<"t1">>

(***************************************************************************)
(* The hrefs, folders and sizes of LsColXMLParser::parse, under SpecParse  *)
(***************************************************************************)
\* The hrefs of the folder list.
Folders == {parser.folders[i] : i \in DOMAIN parser.folders}

\* C23 as the specification has it: once a size that is no number was read,
\* parse has returned false.
C23_NonNumericSizeFails ==
    docCur.noSize => parsePc = "returned" /\ parseResult = "false"

\* C23: a href outside the expected path makes parse return false at that
\* point, with no further entry and no success signal.  A size whose text is
\* no number does not: no size is recorded for the href (the size table has
\* exactly the hrefs for which a number was read), the text is kept in the
\* working mapping like that of any other property, and parse goes on and
\* ends as it would have without it.
C23_ValidationErrors ==
    /\ docBadHref => parsePc = "returned" /\ parseResult = "false" /\ parser.emitted = <<>>
    /\ DOMAIN parser.sizes = docCur.numericRead
    /\ "nosize" \in docPs.is /\ docEnd = "none" =>
          /\ parsePc = "parsing"
          /\ S_size \in DOMAIN parser.currentTmpProperties
          /\ parser.currentTmpProperties[S_size] = <<"1", "x">>
    /\ docCur.noSize /\ parsePc = "returned" =>
          (parseResult = "true" <=> docEnd = "complete" /\ docRoot = S_multistatus)

\* C23 witness: a document with a size that is no number, and with no other
\* size, was parsed to its end with success.
C23_Witness ==
    /\ docCur.noSize
    /\ parsePc = "returned" /\ parseResult = "true"
    /\ parser.sizes = EmptyMap
    /\ docCount = 2
    /\ received = IteratedNames(2) \o <<"directoryListingSubfolders", "finishedWithoutError">>

\* C25: the href of every entry emitted starts with the expected path, also
\* for a response without a href and for a href that is the expected path
\* with a slash after it.
C25_EntriesUnderExpectedPath ==
    \A i \in DOMAIN parser.emitted :
        IsIterated(parser.emitted[i]) => startsWith(parser.emitted[i].href, ExpectedPath)

\* C26: at the successful end of parse the folder list has only hrefs that a
\* propstat told to be a collection, and the size table only hrefs for which
\* a propstat had a numeric size, where a propstat with a status other than
\* 200 tells nothing.
C26_DerivedDataGated ==
    parseResult = "true" =>
        /\ Folders \subseteq docCur.folderTold
        /\ DOMAIN parser.sizes \subseteq docCur.sizeTold

\* C27: at the successful end of parse every href of the folder list and every
\* key of the size table is the href of an entry emitted during the parse.
C27_OneHrefForm ==
    parseResult = "true" =>
        /\ Folders \subseteq docCur.entries
        /\ DOMAIN parser.sizes \subseteq docCur.entries

\* C28: when a response has ended, the current href, the published mapping,
\* the working mapping and the 200 flag are cleared, and the entry emitted for
\* it has the href of this response (none if it has none) and only properties
\* of its own propstats with status 200, whatever the responses before it had.
C28_NoLeakBetweenResponses ==
    docPrev.ended =>
        /\ parser.currentHref = <<>>
        /\ parser.currentHttp200Properties = EmptyMap
        /\ parser.currentTmpProperties = EmptyMap
        /\ ~parser.currentPropsHaveHttp200
        /\ OneEntry
        /\ parser.emitted[1].href = docPrev.href
        /\ Pairs(parser.emitted[1].props) \subseteq docPrev.all200

\* C28 witness: a response without href and without a propstat of status 200
\* ends right after a response with a href and published properties.
C28_Witness ==
    /\ docPrev.ended /\ docCount = 2
    /\ docPrev.follows200
    /\ ~docPrev.hasHref /\ docPrev.n = 1 /\ docPrev.n200 = 0 /\ docPrev.names # {}
    /\ docPrev.entries = {<<>>, <<"/", "a", "/", "b">>}
    /\ OneEntry
    /\ parser.emitted[1].href = <<>>
    /\ parser.emitted[1].props = EmptyMap

\* An entry was emitted for a response without a href: its href is empty.
C25_NoHref ==
    /\ docPrev.ended /\ ~docPrev.hasHref /\ docPrev.n200 = 1 /\ docPrev.last200 # {}
    /\ OneEntry
    /\ parser.emitted[1].href = <<>>
    /\ parser.emitted[1].props # EmptyMap

\* The only propstat of the only response had a status other than 200, and
\* its collection resourcetype and its size are in the folder list and the
\* size table at the successful end.
C26_Ungated ==
    /\ parseResult = "true" /\ docCount = 1
    /\ docCur.folderTold = {} /\ docCur.sizeTold = {}
    /\ parser.folders = <<<<"/", "a", "/", "b", "/">>>>
    /\ DOMAIN parser.sizes = {<<"/", "a", "/", "b", "/">>}

\* A propstat with status 200 told the only response to be a collection: the
\* folder list has its href with the slash, the entry had it without.
C27_SlashKept ==
    /\ parseResult = "true" /\ docCount = 1
    /\ docCur.folderTold = {<<"/", "a", "/", "b", "/">>}
    /\ parser.folders = <<<<"/", "a", "/", "b", "/">>>>
    /\ docCur.entries = {<<"/", "a", "/", "b">>}

====
